---- MODULE Spec2Model ----
(***************************************************************************)
(* ts-results-es: the Result container (OkImpl / ErrImpl), its combinators *)
(* and the static collection operations of namespace Result.               *)
(*                                                                         *)
(* Containers are objects with identity: they live in a heap (a sequence   *)
(* of objects) and are referred to by their index.  Payloads are plain     *)
(* values compared structurally.  Every operation is an operator from the  *)
(* heap and its arguments to an outcome: the heap as the call left it, the *)
(* value returned, the value raised, the log of callback invocations and   *)
(* the log of elements whose isOk() was asked.                             *)
(***************************************************************************)
EXTENDS Integers, Sequences, FiniteSets, TLC

\* ---------------------------------------------------------------- bounds
\* primitive payloads are the numbers 0 .. MaxVal-1
MaxVal == 2
\* containers the client holds at once, the two EMPTY singletons included
MaxHeap == 4
\* longest array (or record) handed to all / any / partition
MaxLen == 3
MaxAsync == 3
\* elements the source of a stream pipeline emits
MaxSource == 2

\* ---------------------------------------------------------------- values
Undefined == [t |-> "undefined"]
Num(n) == [t |-> "num", n |-> n]
Str(s) == [t |-> "str", s |-> s]
Arr(items) == [t |-> "arr", items |-> items]
Obj(m) == [t |-> "obj", m |-> m]

\* the empty plain object {}
EmptyObj == [k \in {} |-> Undefined]

\* obj[key] = value on a plain object
SetKey(m, key, value) == [k \in (DOMAIN m) \cup {key} |-> IF k = key THEN value ELSE m[k]]

Nums == {Num(n) : n \in 0 .. (MaxVal - 1)}

\* ------------------------------------------------------ container objects
\* `new ErrImpl(val)`: the payload and the stack captured at construction
ErrImpl(val) == [tag |-> "Err", error |-> val, stack |-> "stack"]

\* `new OkImpl(val)`
OkImpl(val) == [tag |-> "Ok", value |-> val]

\* allocation of a fresh object: a new identity, after every existing one
New(h, obj) == [heap |-> Append(h, obj), ref |-> Len(h) + 1]

\* static readonly EMPTY of ErrImpl and of OkImpl, created when the module loads
ErrEMPTY == 1
OkEMPTY == 2
InitHeap == <<ErrImpl(Undefined), OkImpl(Undefined)>>

\* ---------------------------------------------------------------- outcomes
RetRef(id) == [k |-> "ref", id |-> id]
RetVal(v) == [k |-> "val", v |-> v]
RetBool(b) == [k |-> "bool", b |-> b]
RetPair(oks, errors) == [k |-> "pair", oks |-> oks, errors |-> errors]
RetOption(o) == [k |-> "option", o |-> o]
RetNever == [k |-> "never"]

NoRaise == [k |-> "none"]
\* a value thrown by caller-supplied code, propagated as it is
Thrown(v) == [k |-> "thrown", v |-> v]

Outcome(h, ret, raised, calls, seen) ==
    [heap |-> h, ret |-> ret, raised |-> raised, calls |-> calls, seen |-> seen]

Returns(h, ret, calls) == Outcome(h, ret, NoRaise, calls, <<>>)
Raises(h, raised, calls) == Outcome(h, RetNever, raised, calls, <<>>)

\* ---------------------------------------------------------- Error objects
Lit(s) == [p |-> "lit", s |-> s]
StackPart(s) == [p |-> "stack", s |-> s]

\* utils.toString(val): the rendering of a payload inside a message
toString(val) == [p |-> "rendered", of |-> val]

\* `new Error(message)`: no cause option, reading .cause gives undefined
NewError(message) ==
    [k |-> "Error", message |-> message, hasCause |-> FALSE, cause |-> Undefined]

\* `new Error(message, { cause })`
NewErrorCause(message, cause) ==
    [k |-> "Error", message |-> message, hasCause |-> TRUE, cause |-> cause]

\* ---------------------------------------------------------------- callbacks
\* A callback is a pipeline of primitive steps, x => sn(...s1(x)): this makes
\* the composition of two callbacks a callback again.
TheThrown == Str("boom")

PrimStep(step, v) ==
    CASE step = "inc" -> IF v.t = "num" THEN Num((v.n + 1) % MaxVal) ELSE v
      [] step = "dbl" -> IF v.t = "num" THEN Num((2 * v.n) % MaxVal) ELSE Num(0)
      [] step = "zero" -> Num(0)
      [] OTHER -> v

RECURSIVE RunSteps(_, _, _)
RunSteps(fn, i, v) ==
    IF i > Len(fn) THEN [kind |-> "return", v |-> v]
    ELSE IF fn[i] = "boom" THEN [kind |-> "throw", v |-> TheThrown]
    ELSE RunSteps(fn, i + 1, PrimStep(fn[i], v))

\* the call fn(v) of a value-returning callback
CallMapper(fn, v) == RunSteps(fn, 1, v)

\* g after f
Compose(f, g) == f \o g

\* one invocation in the log
Invocation(fn, arg) == [fn |-> fn, arg |-> arg]

\* x => f(x).andThen(g), written by the client from two container-returning
\* callbacks: the steps of f, then those of g, behind the mark "bind"
Bind(f, g) == <<"bind">> \o f \o g

\* the call fn(v) of a container-returning callback written as a pipeline:
\* its last step names the container it returns, the steps before it
\* transform the payload; inner is the log of the invocations the callback
\* made itself
CallPipeline(h, fn, v) ==
    LET body == CallMapper(SubSeq(fn, 1, Len(fn) - 1), v)
        lastStep == fn[Len(fn)]
    IN  IF body.kind = "throw" \/ lastStep = "boom"
        THEN [kind |-> "throw", v |-> TheThrown, heap |-> h, inner |-> <<>>]
        ELSE IF lastStep = "Ok"
        THEN LET n == New(h, OkImpl(body.v))
             IN  [kind |-> "return", ref |-> n.ref, heap |-> n.heap, inner |-> <<>>]
        ELSE IF lastStep = "Err"
        THEN LET n == New(h, ErrImpl(body.v))
             IN  [kind |-> "return", ref |-> n.ref, heap |-> n.heap, inner |-> <<>>]
        ELSE IF lastStep = "Err.EMPTY"
        THEN [kind |-> "return", ref |-> ErrEMPTY, heap |-> h, inner |-> <<>>]
        ELSE [kind |-> "return", ref |-> OkEMPTY, heap |-> h, inner |-> <<>>]

RECURSIVE andThen(_, _, _)
RECURSIVE CallResultFn(_, _, _)
\* the call fn(v) of a container-returning callback: a pipeline, or
\* x => f(x).andThen(g)
CallResultFn(h, fn, v) ==
    IF fn[1] = "bind"
    THEN LET steps == Tail(fn)
             Ends(step) == step \in {"Ok", "Err", "Err.EMPTY", "Ok.EMPTY", "boom"}
             \* where the steps of f end
             cut == CHOOSE i \in 1 .. Len(steps) :
                        Ends(steps[i]) /\ \A j \in 1 .. i - 1 : ~Ends(steps[j])
             f == SubSeq(steps, 1, cut)
             g == SubSeq(steps, cut + 1, Len(steps))
             r == CallResultFn(h, f, v)
             o == andThen(r.heap, r.ref, g)
         IN  IF r.kind = "throw"
             THEN [kind |-> "throw", v |-> r.v, heap |-> r.heap,
                   inner |-> <<Invocation(f, v)>>]
             ELSE IF o.raised # NoRaise
             THEN [kind |-> "throw", v |-> o.raised.v, heap |-> o.heap,
                   inner |-> <<Invocation(f, v)>> \o o.calls]
             ELSE [kind |-> "return", ref |-> o.ret.id, heap |-> o.heap,
                   inner |-> <<Invocation(f, v)>> \o o.calls]
    ELSE CallPipeline(h, fn, v)

\* ------------------------------------------------------------- class ErrImpl
ErrImpl_isOk(h, self) == Returns(h, RetBool(FALSE), <<>>)

ErrImpl_isErr(h, self) == Returns(h, RetBool(TRUE), <<>>)

\* unwrapOr() on Err raising as unwrap() does instead of answering the default
ErrImpl_unwrapOr_raises(h, self, val) ==
    Raises(h, NewErrorCause(<<Lit("Tried to unwrap Error: "), toString(h[self].error),
                              Lit("\n"), StackPart(h[self].stack)>>,
                            h[self].error), <<>>)

ErrImpl_unwrapOr(h, self, val) == Returns(h, RetVal(val), <<>>)

ErrImpl_unwrapOrElse(h, self, f) ==
    LET r == CallMapper(f, h[self].error)
        log == <<Invocation(f, h[self].error)>>
    IN  IF r.kind = "throw" THEN Raises(h, Thrown(r.v), log)
        ELSE Returns(h, RetVal(r.v), log)

ErrImpl_expect(h, self, msg) ==
    Raises(h, NewErrorCause(<<Lit(msg), Lit(" - Error: "), toString(h[self].error),
                              Lit("\n"), StackPart(h[self].stack)>>,
                            h[self].error), <<>>)

ErrImpl_expectErr(h, self, msg) == Returns(h, RetVal(h[self].error), <<>>)

ErrImpl_unwrap(h, self) ==
    Raises(h, NewErrorCause(<<Lit("Tried to unwrap Error: "), toString(h[self].error),
                              Lit("\n"), StackPart(h[self].stack)>>,
                            h[self].error), <<>>)

ErrImpl_unwrapErr(h, self) == Returns(h, RetVal(h[self].error), <<>>)

\* map() on Err rebuilding the Err around the same payload
ErrImpl_map_rebuilds(h, self, mapper) ==
    LET n == New(h, ErrImpl(h[self].error)) IN Returns(n.heap, RetRef(n.ref), <<>>)

ErrImpl_map(h, self, mapper) == Returns(h, RetRef(self), <<>>)

ErrImpl_andThen(h, self, op) == Returns(h, RetRef(self), <<>>)

ErrImpl_mapErr(h, self, mapper) ==
    LET r == CallMapper(mapper, h[self].error)
        log == <<Invocation(mapper, h[self].error)>>
    IN  IF r.kind = "throw" THEN Raises(h, Thrown(r.v), log)
        ELSE LET n == New(h, ErrImpl(r.v)) IN Returns(n.heap, RetRef(n.ref), log)

ErrImpl_mapOr(h, self, default, mapper) == Returns(h, RetVal(default), <<>>)

ErrImpl_mapOrElse(h, self, default, mapper) ==
    LET r == CallMapper(default, h[self].error)
        log == <<Invocation(default, h[self].error)>>
    IN  IF r.kind = "throw" THEN Raises(h, Thrown(r.v), log)
        ELSE Returns(h, RetVal(r.v), log)

ErrImpl_or(h, self, other) == Returns(h, RetRef(other), <<>>)

ErrImpl_orElse(h, self, other) ==
    LET r == CallResultFn(h, other, h[self].error)
        log == <<Invocation(other, h[self].error)>> \o r.inner
    IN  IF r.kind = "throw" THEN Raises(r.heap, Thrown(r.v), log)
        ELSE Returns(r.heap, RetRef(r.ref), log)

\* -------------------------------------------------------------- class OkImpl
OkImpl_isOk(h, self) == Returns(h, RetBool(TRUE), <<>>)

\* isErr() on Ok answering as isOk() does
OkImpl_isErr_asIsOk(h, self) == Returns(h, RetBool(TRUE), <<>>)

OkImpl_isErr(h, self) == Returns(h, RetBool(FALSE), <<>>)

OkImpl_unwrapOr(h, self, val) == Returns(h, RetVal(h[self].value), <<>>)

OkImpl_unwrapOrElse(h, self, f) == Returns(h, RetVal(h[self].value), <<>>)

OkImpl_expect(h, self, msg) == Returns(h, RetVal(h[self].value), <<>>)

OkImpl_expectErr(h, self, msg) == Raises(h, NewError(<<Lit(msg)>>), <<>>)

OkImpl_unwrap(h, self) == Returns(h, RetVal(h[self].value), <<>>)

\* unwrapErr() on Ok raising without the cause option
OkImpl_unwrapErr_noCause(h, self) ==
    Raises(h, NewError(<<Lit("Tried to unwrap Ok: "), toString(h[self].value)>>), <<>>)

OkImpl_unwrapErr(h, self) ==
    Raises(h, NewErrorCause(<<Lit("Tried to unwrap Ok: "), toString(h[self].value)>>,
                            h[self].value), <<>>)

\* map() on Ok storing the mapped value in the receiver and answering it
OkImpl_map_inPlace(h, self, mapper) ==
    LET r == CallMapper(mapper, h[self].value)
        log == <<Invocation(mapper, h[self].value)>>
    IN  IF r.kind = "throw" THEN Raises(h, Thrown(r.v), log)
        ELSE Returns([h EXCEPT ![self].value = r.v], RetRef(self), log)

OkImpl_map(h, self, mapper) ==
    LET r == CallMapper(mapper, h[self].value)
        log == <<Invocation(mapper, h[self].value)>>
    IN  IF r.kind = "throw" THEN Raises(h, Thrown(r.v), log)
        ELSE LET n == New(h, OkImpl(r.v)) IN Returns(n.heap, RetRef(n.ref), log)

\* andThen() on Ok wrapping what the mapper returned, as map() does
OkImpl_andThen_wraps(h, self, mapper) ==
    LET r == CallResultFn(h, mapper, h[self].value)
        log == <<Invocation(mapper, h[self].value)>> \o r.inner
    IN  IF r.kind = "throw" THEN Raises(r.heap, Thrown(r.v), log)
        ELSE LET obj == r.heap[r.ref]
                 n == New(r.heap, IF obj.tag = "Ok" THEN OkImpl(obj.value) ELSE ErrImpl(obj.error))
             IN  Returns(n.heap, RetRef(n.ref), log)

\* andThen() on Ok answering an Ok around the payload of whatever container
\* the mapper returned
OkImpl_andThen_alwaysOk(h, self, mapper) ==
    LET r == CallResultFn(h, mapper, h[self].value)
        log == <<Invocation(mapper, h[self].value)>> \o r.inner
    IN  IF r.kind = "throw" THEN Raises(r.heap, Thrown(r.v), log)
        ELSE LET obj == r.heap[r.ref]
                 n == New(r.heap, OkImpl(IF obj.tag = "Ok" THEN obj.value ELSE obj.error))
             IN  Returns(n.heap, RetRef(n.ref), log)

OkImpl_andThen(h, self, mapper) ==
    LET r == CallResultFn(h, mapper, h[self].value)
        log == <<Invocation(mapper, h[self].value)>> \o r.inner
    IN  IF r.kind = "throw" THEN Raises(r.heap, Thrown(r.v), log)
        ELSE Returns(r.heap, RetRef(r.ref), log)

OkImpl_mapErr(h, self, mapper) == Returns(h, RetRef(self), <<>>)

OkImpl_mapOr(h, self, default, mapper) ==
    LET r == CallMapper(mapper, h[self].value)
        log == <<Invocation(mapper, h[self].value)>>
    IN  IF r.kind = "throw" THEN Raises(h, Thrown(r.v), log)
        ELSE Returns(h, RetVal(r.v), log)

OkImpl_mapOrElse(h, self, default, mapper) ==
    LET r == CallMapper(mapper, h[self].value)
        log == <<Invocation(mapper, h[self].value)>>
    IN  IF r.kind = "throw" THEN Raises(h, Thrown(r.v), log)
        ELSE Returns(h, RetVal(r.v), log)

OkImpl_or(h, self, other) == Returns(h, RetRef(self), <<>>)

\* orElse() on Ok evaluating the callback before answering the receiver
OkImpl_orElse_eager(h, self, other) ==
    LET r == CallResultFn(h, other, h[self].value)
        log == <<Invocation(other, h[self].value)>> \o r.inner
    IN  IF r.kind = "throw" THEN Raises(r.heap, Thrown(r.v), log)
        ELSE Returns(r.heap, RetRef(self), log)

OkImpl_orElse(h, self, other) == Returns(h, RetRef(self), <<>>)

\* ----------------------------------------------------------------- iteration
\* An iterator is an object of its own, kept in a store `its` like the
\* containers in the heap.  [Symbol.iterator]() on Err answers a new object
\* whose next() is always done.
ErrImpl_iterator(h, its, self) == New(its, [kind |-> "done"])

\* [Symbol.iterator]() on Ok iterating the payload itself when it is an array
OkImpl_iterator_spreads(h, its, self) ==
    New(its, [kind |-> "array",
              items |-> IF h[self].value.t = "arr" THEN h[self].value.items
                        ELSE <<h[self].value>>,
              pos |-> 0])

\* [Symbol.iterator]() on Ok answers the iterator of the new array [this.value]
OkImpl_iterator(h, its, self) ==
    New(its, [kind |-> "array", items |-> <<h[self].value>>, pos |-> 0])

\* it.next() of iterator id: the iterator result and the store after it
IteratorNext(its, id) ==
    IF its[id].kind = "array" /\ its[id].pos < Len(its[id].items)
    THEN [done |-> FALSE, value |-> its[id].items[its[id].pos + 1],
          its |-> [its EXCEPT ![id].pos = @ + 1]]
    ELSE [done |-> TRUE, value |-> Undefined, its |-> its]

\* Array.from(r): asks r for an iterator and collects what it yields until
\* it is done
ArrayFrom(h, its, self) ==
    LET it == IF h[self].tag = "Ok" THEN OkImpl_iterator(h, its, self)
              ELSE ErrImpl_iterator(h, its, self)
        RECURSIVE Collect(_, _)
        Collect(store, acc) ==
            LET step == IteratorNext(store, it.ref)
            IN  IF step.done THEN [its |-> step.its, items |-> acc]
                ELSE Collect(step.its, Append(acc, step.value))
    IN  Collect(it.heap, <<>>)

\* ------------------------------------------------ presence/absence container
None == [tag |-> "None"]
Some(val) == [tag |-> "Some", value |-> val]

\* toResult(error) of a presence/absence container
Option_toResult(h, o, error) ==
    LET n == New(h, IF o.tag = "Some" THEN OkImpl(o.value) ELSE ErrImpl(error))
    IN  Returns(n.heap, RetRef(n.ref), <<>>)

\* the options of a call of Option.all / Option.any: the array handed
\* over, or the arguments themselves in the variadic form
Option_options(args) ==
    IF args = <<>> THEN <<>>
    ELSE IF "t" \in DOMAIN args[1] THEN args[1].items
    ELSE args

\* Option.any answering the last Some
Option_any_lastSome(h, args) ==
    LET options == Option_options(args)
        someAt == {i \in 1 .. Len(options) : options[i].tag = "Some"}
    IN  Outcome(h, RetOption(IF someAt = {} THEN None
                             ELSE options[CHOOSE i \in someAt : \A j \in someAt : j <= i]),
                NoRaise, <<>>, [i \in 1 .. Len(options) |-> i])

\* Option.all(options) / Option.all(...options): the payloads of the options
\* in a Some, or the first None
Option_all(h, args) ==
    LET options == Option_options(args)
        RECURSIVE Loop(_, _, _)
        Loop(i, some, seen) ==
            IF i > Len(options) THEN Outcome(h, RetOption(Some(Arr(some))), NoRaise, <<>>, seen)
            ELSE IF options[i].tag = "Some"
            THEN Loop(i + 1, Append(some, options[i].value), Append(seen, i))
            ELSE Outcome(h, RetOption(options[i]), NoRaise, <<>>, Append(seen, i))
    IN  Loop(1, <<>>, <<>>)

\* Option.any(options) / Option.any(...options): the first Some, or None
Option_any(h, args) ==
    LET options == Option_options(args)
        RECURSIVE Loop(_, _)
        Loop(i, seen) ==
            IF i > Len(options) THEN Outcome(h, RetOption(None), NoRaise, <<>>, seen)
            ELSE IF options[i].tag = "Some"
            THEN Outcome(h, RetOption(options[i]), NoRaise, <<>>, Append(seen, i))
            ELSE Loop(i + 1, Append(seen, i))
    IN  Loop(1, <<>>)

\* toOption() on Err keeping the error as the present payload
ErrImpl_toOption_keepsError(h, self) == Returns(h, RetOption(Some(h[self].error)), <<>>)

ErrImpl_toOption(h, self) == Returns(h, RetOption(None), <<>>)

OkImpl_toOption(h, self) == Returns(h, RetOption(Some(h[self].value)), <<>>)

\* ------------------------------------------- method calls on a Result (dispatch)
IsOkObj(h, r) == h[r].tag = "Ok"

isOk(h, self) == IF IsOkObj(h, self) THEN OkImpl_isOk(h, self) ELSE ErrImpl_isOk(h, self)
isErr(h, self) == IF IsOkObj(h, self) THEN OkImpl_isErr(h, self) ELSE ErrImpl_isErr(h, self)
unwrapOr(h, self, val) ==
    IF IsOkObj(h, self) THEN OkImpl_unwrapOr(h, self, val) ELSE ErrImpl_unwrapOr(h, self, val)
unwrapOrElse(h, self, f) ==
    IF IsOkObj(h, self) THEN OkImpl_unwrapOrElse(h, self, f) ELSE ErrImpl_unwrapOrElse(h, self, f)
expect(h, self, msg) ==
    IF IsOkObj(h, self) THEN OkImpl_expect(h, self, msg) ELSE ErrImpl_expect(h, self, msg)
expectErr(h, self, msg) ==
    IF IsOkObj(h, self) THEN OkImpl_expectErr(h, self, msg) ELSE ErrImpl_expectErr(h, self, msg)
unwrap(h, self) == IF IsOkObj(h, self) THEN OkImpl_unwrap(h, self) ELSE ErrImpl_unwrap(h, self)
unwrapErr(h, self) ==
    IF IsOkObj(h, self) THEN OkImpl_unwrapErr(h, self) ELSE ErrImpl_unwrapErr(h, self)
map(h, self, mapper) ==
    IF IsOkObj(h, self) THEN OkImpl_map(h, self, mapper) ELSE ErrImpl_map(h, self, mapper)
andThen(h, self, mapper) ==
    IF IsOkObj(h, self) THEN OkImpl_andThen(h, self, mapper) ELSE ErrImpl_andThen(h, self, mapper)
mapErr(h, self, mapper) ==
    IF IsOkObj(h, self) THEN OkImpl_mapErr(h, self, mapper) ELSE ErrImpl_mapErr(h, self, mapper)
mapOr(h, self, default, mapper) ==
    IF IsOkObj(h, self) THEN OkImpl_mapOr(h, self, default, mapper)
    ELSE ErrImpl_mapOr(h, self, default, mapper)
mapOrElse(h, self, default, mapper) ==
    IF IsOkObj(h, self) THEN OkImpl_mapOrElse(h, self, default, mapper)
    ELSE ErrImpl_mapOrElse(h, self, default, mapper)
or(h, self, other) ==
    IF IsOkObj(h, self) THEN OkImpl_or(h, self, other) ELSE ErrImpl_or(h, self, other)
orElse(h, self, other) ==
    IF IsOkObj(h, self) THEN OkImpl_orElse(h, self, other) ELSE ErrImpl_orElse(h, self, other)
toOption(h, self) ==
    IF IsOkObj(h, self) THEN OkImpl_toOption(h, self) ELSE ErrImpl_toOption(h, self)

\* ------------------------------------------------------------ namespace Result
\* the argument of all(): an array of containers or a record of containers,
\* the record given by its entries in Object.entries() order
ArrayOf(items) == [kind |-> "array", items |-> items]
RecordOf(entries) == [kind |-> "record", entries |-> entries]

\* all(), array branch: the for-of loop from position i on
RECURSIVE all_array(_, _, _, _, _)
all_array(h, items, i, okResult, seen) ==
    IF i > Len(items)
    THEN LET n == New(h, OkImpl(Arr(okResult)))
         IN  Outcome(n.heap, RetRef(n.ref), NoRaise, <<>>, seen)
    ELSE IF isOk(h, items[i]).ret.b
    THEN all_array(h, items, i + 1, Append(okResult, h[items[i]].value), Append(seen, i))
    ELSE Outcome(h, RetRef(items[i]), NoRaise, <<>>, Append(seen, i))

\* all(), record branch: the loop over Object.entries(results) from position i on
RECURSIVE all_record(_, _, _, _, _, _, _)
all_record(h, entries, i, okResult, errResult, hasErr, seen) ==
    IF i > Len(entries)
    THEN LET n == New(h, IF hasErr THEN ErrImpl(Obj(errResult)) ELSE OkImpl(Obj(okResult)))
         IN  Outcome(n.heap, RetRef(n.ref), NoRaise, <<>>, seen)
    ELSE LET key == entries[i][1]
             result == entries[i][2]
         IN  IF isOk(h, result).ret.b
             THEN all_record(h, entries, i + 1, SetKey(okResult, key, h[result].value),
                             errResult, hasErr, Append(seen, key))
             ELSE all_record(h, entries, i + 1, okResult,
                             SetKey(errResult, key, h[result].error), TRUE, Append(seen, key))

\* all() answering with a copy of the first Err instead of the Err itself
Result_all_copiesErr(h, results) ==
    LET o == IF results.kind = "array"
             THEN all_array(h, results.items, 1, <<>>, <<>>)
             ELSE all_record(h, results.entries, 1, EmptyObj, EmptyObj, FALSE, <<>>)
    IN  IF results.kind = "array" /\ o.ret.id <= Len(h)
        THEN LET n == New(h, ErrImpl(h[o.ret.id].error))
             IN  Outcome(n.heap, RetRef(n.ref), NoRaise, <<>>, o.seen)
        ELSE o

\* all() collecting the payloads with unshift() instead of push()
Result_all_unshift(h, results) ==
    LET o == IF results.kind = "array"
             THEN all_array(h, results.items, 1, <<>>, <<>>)
             ELSE all_record(h, results.entries, 1, EmptyObj, EmptyObj, FALSE, <<>>)
    IN  IF results.kind = "array" /\ o.ret.id > Len(h)
        THEN LET items == o.heap[o.ret.id].value.items
                 n == New(h, OkImpl(Arr([i \in 1 .. Len(items) |-> items[Len(items) + 1 - i]])))
             IN  Outcome(n.heap, RetRef(n.ref), NoRaise, <<>>, o.seen)
        ELSE o

\* all() whose record branch stops at the first Err entry, as the array branch does
Result_all_recordStops(h, results) ==
    IF results.kind = "array"
    THEN all_array(h, results.items, 1, <<>>, <<>>)
    ELSE LET es == results.entries
             errAt == {i \in 1 .. Len(es) : h[es[i][2]].tag = "Err"}
             stop == IF errAt = {} THEN Len(es)
                     ELSE CHOOSE i \in errAt : \A j \in errAt : i <= j
         IN  all_record(h, SubSeq(es, 1, stop), 1, EmptyObj, EmptyObj, FALSE, <<>>)

\* all() whose array branch leaves the Err elements out and answers an Ok of
\* the payloads of the rest
Result_all_skipsErr(h, results) ==
    IF results.kind = "array"
    THEN all_array(h, SelectSeq(results.items, LAMBDA r : h[r].tag = "Ok"), 1, <<>>, <<>>)
    ELSE all_record(h, results.entries, 1, EmptyObj, EmptyObj, FALSE, <<>>)

Result_all(h, results) ==
    IF results.kind = "array"
    THEN all_array(h, results.items, 1, <<>>, <<>>)
    ELSE all_record(h, results.entries, 1, EmptyObj, EmptyObj, FALSE, <<>>)

\* any(): the for-of loop from position i on
RECURSIVE any_loop(_, _, _, _, _)
any_loop(h, results, i, errResult, seen) ==
    IF i > Len(results)
    THEN LET n == New(h, ErrImpl(Arr(errResult)))
         IN  Outcome(n.heap, RetRef(n.ref), NoRaise, <<>>, seen)
    ELSE IF isOk(h, results[i]).ret.b
    THEN Outcome(h, RetRef(results[i]), NoRaise, <<>>, Append(seen, i))
    ELSE any_loop(h, results, i + 1, Append(errResult, h[results[i]].error), Append(seen, i))

\* any() that keeps looking and answers with the last Ok
Result_any_lastOk(h, results) ==
    LET okAt == {i \in 1 .. Len(results) : h[results[i]].tag = "Ok"}
    IN  IF okAt = {} THEN any_loop(h, results, 1, <<>>, <<>>)
        ELSE Outcome(h, RetRef(results[CHOOSE i \in okAt : \A j \in okAt : j <= i]), NoRaise,
                     <<>>, [i \in 1 .. Len(results) |-> i])

Result_any(h, results) == any_loop(h, results, 1, <<>>, <<>>)

\* wrap(op) answering an Err around a new Error made from what op threw
Result_wrap_convertsThrown(h, op) ==
    LET r == CallMapper(op, Undefined)
        log == <<Invocation(op, Undefined)>>
    IN  IF r.kind = "throw"
        THEN LET n == New(h, ErrImpl(NewError(<<toString(r.v)>>)))
             IN  Returns(n.heap, RetRef(n.ref), log)
        ELSE LET n == New(h, OkImpl(r.v)) IN Returns(n.heap, RetRef(n.ref), log)

\* wrap(op): op takes no argument
Result_wrap(h, op) ==
    LET r == CallMapper(op, Undefined)
        log == <<Invocation(op, Undefined)>>
    IN  IF r.kind = "throw"
        THEN LET n == New(h, ErrImpl(r.v)) IN Returns(n.heap, RetRef(n.ref), log)
        ELSE LET n == New(h, OkImpl(r.v)) IN Returns(n.heap, RetRef(n.ref), log)

\* partition(): results.reduce(...) from position i on, acc = [oks, errors]
RECURSIVE partition_reduce(_, _, _, _, _, _)
partition_reduce(h, results, i, oks, errors, seen) ==
    IF i > Len(results)
    THEN Outcome(h, RetPair(oks, errors), NoRaise, <<>>, seen)
    ELSE IF isOk(h, results[i]).ret.b
    THEN partition_reduce(h, results, i + 1, Append(oks, h[results[i]].value), errors,
                          Append(seen, i))
    ELSE partition_reduce(h, results, i + 1, oks, Append(errors, h[results[i]].error),
                          Append(seen, i))

\* partition() that stops at the first Err, as all() does
Result_partition_stops(h, results) ==
    LET errAt == {i \in 1 .. Len(results) : h[results[i]].tag = "Err"}
        stop == IF errAt = {} THEN Len(results)
                ELSE CHOOSE i \in errAt : \A j \in errAt : i <= j
    IN  partition_reduce(h, SubSeq(results, 1, stop), 1, <<>>, <<>>, <<>>)

Result_partition(h, results) == partition_reduce(h, results, 1, <<>>, <<>>, <<>>)

\* what a stream hands over, a promise is settled with or a callback
\* returns, when it is no plain value: a container, a promise, an AsyncResult
\* object around a promise, or an option
ResultVal(r) == [t |-> "result", ref |-> r]
PromiseVal(p) == [t |-> "promise", id |-> p]
AsyncResultVal(p) == [t |-> "asyncresult", promise |-> p]
OptionVal(o) == [t |-> "option", o |-> o]

\* ------------------------------------------------------------ namespace Result
\* isResult(val) answering true for every container, options included
Result_isResult_anyContainer(h, val) == val.t \in {"result", "option"}

\* isResult(val): val instanceof Err || val instanceof Ok
Result_isResult(h, val) ==
    val.t = "result" /\ (h[val.ref].tag = "Err" \/ h[val.ref].tag = "Ok")

\* -------------------------------------------------------------- rxjs operators
(***************************************************************************)
(* A stream hands its items over one at a time.  The mapper of             *)
(* resultSwitchMap / resultMergeMap answers an inner stream: here the      *)
(* sequence of the items it will emit, each telling what it is made of the *)
(* mapper's argument v, emitted at once on subscription (sync) or one by   *)
(* one later.                                                              *)
(***************************************************************************)
StreamFn(items, sync) == [items |-> items, sync |-> sync]

\* the item an inner stream emits for the description d: a new Ok(v) or
\* Err(v), the plain value v, or an option
Emit(h, d, v) ==
    CASE d = "Ok" -> LET n == New(h, OkImpl(v)) IN [heap |-> n.heap, item |-> ResultVal(n.ref)]
      [] d = "Err" -> LET n == New(h, ErrImpl(v)) IN [heap |-> n.heap, item |-> ResultVal(n.ref)]
      [] d = "Some" -> [heap |-> h, item |-> OptionVal(Some(v))]
      [] d = "None" -> [heap |-> h, item |-> OptionVal(None)]
      [] OTHER -> [heap |-> h, item |-> v]

\* the function handed to switchMap / mergeMap: the stream the source
\* element `result` is projected to, and the call of the mapper if any;
\* of(result) emits result at once
Project(h, mapper, result) ==
    IF isOk(h, result).ret.b
    THEN [items |-> mapper.items, sync |-> mapper.sync, v |-> h[result].value,
          calls |-> <<h[result].value>>]
    ELSE [items |-> <<"of">>, sync |-> TRUE, v |-> ResultVal(result), calls |-> <<>>]

\* the function handed to map(): a Result goes on as it is, anything else in
\* a new Ok
ResultOrOk(h, result) ==
    IF Result_isResult(h, result) THEN [heap |-> h, out |-> result]
    ELSE LET n == New(h, OkImpl(result)) IN [heap |-> n.heap, out |-> ResultVal(n.ref)]

\* the inner stream at place k of the pipeline emits its next item, which
\* goes through map()
RECURSIVE InnerNext(_, _)
InnerNext(s, k) ==
    LET in == s.rx.inners[k]
        e == Emit(s.heap, Head(in.items), in.v)
        m == ResultOrOk(e.heap, e.item)
    IN  [heap |-> m.heap,
         rx |-> [s.rx EXCEPT !.inners[k].items = Tail(@),
                             !.emitted = Append(@, [from |-> in.from, item |-> e.item]),
                             !.out = Append(@, m.out)]]

\* a stream that emits on subscription emits all its items at once
RECURSIVE Flush(_, _)
Flush(s, k) ==
    IF s.rx.inners[k].items = <<>> THEN s ELSE Flush(InnerNext(s, k), k)

\* the source hands the pipeline its next element: the element is projected
\* and the stream it is projected to subscribed to; keep tells which of the
\* inner streams subscribed to before stay subscribed
SourceNext(h, r, result, keep) ==
    LET pr == Project(h, r.mapper, result)
        at == Len(r.source) + 1
        inner == [items |-> pr.items, v |-> pr.v, from |-> at]
        kept == [k \in 1 .. Len(r.inners) |->
                    IF keep THEN r.inners[k] ELSE [r.inners[k] EXCEPT !.items = <<>>]]
        s == [heap |-> h,
              rx |-> [r EXCEPT !.source = Append(@, result),
                               !.calls = @ \o [i \in 1 .. Len(pr.calls) |->
                                                  [from |-> at, arg |-> pr.calls[i]]],
                               !.inners = Append(kept, inner)]]
    IN  IF pr.sync THEN Flush(s, at) ELSE s

\* resultSwitchMap(mapper): switchMap unsubscribes from the inner stream
\* before when the source emits
resultSwitchMap(h, r, result) == SourceNext(h, r, result, FALSE)

\* resultMergeMap(mapper): mergeMap keeps every inner stream
resultMergeMap(h, r, result) == SourceNext(h, r, result, TRUE)

\* ---------------------------------------------------------------- promises
(***************************************************************************)
(* The promises and the microtask queue of the platform, as far as the     *)
(* library uses them.  An operation takes the world w (heap, proms, jobs,  *)
(* trace, rets) and answers the world after it.  A promise is its index in       *)
(* proms.  A promise some outside party is to settle later carries in ext  *)
(* what that party will settle it with.                                    *)
(***************************************************************************)

\* a new pending promise; ext is <<>> or <<[state, value]>>
NewPromise(w, ext) ==
    [w |-> [w EXCEPT !.proms = Append(@, [state |-> "pending", value |-> Undefined,
                                          reactions |-> <<>>, ext |-> ext])],
     p |-> Len(w.proms) + 1]

\* a promise job: the handler to run, the promise it settles, and the
\* settlement it reacts to
Job(handler, derived, settled, arg) ==
    [handler |-> handler, derived |-> derived, settled |-> settled, arg |-> arg]

\* fulfil or reject pending promise p with v: its reactions become jobs, in
\* the order they were registered
SettlePromise(w, p, state, v) ==
    IF w.proms[p].state # "pending" THEN w
    ELSE LET rs == w.proms[p].reactions
         IN  [w EXCEPT !.proms[p] = [@ EXCEPT !.state = state, !.value = v,
                                              !.reactions = <<>>],
                       !.jobs = @ \o [i \in 1 .. Len(rs) |->
                                         Job(rs[i].handler, rs[i].derived, state, v)]]

\* the resolve function of promise p called with x: a promise is adopted by
\* a job that calls its then(), anything else fulfils p
ResolvePromise(w, p, x) ==
    IF x.t = "promise"
    THEN [w EXCEPT !.jobs = Append(@, Job([h |-> "callThen", thenable |-> x.id], p,
                                          "fulfilled", Undefined))]
    ELSE SettlePromise(w, p, "fulfilled", x)

\* p.then(handler) on a promise that keeps one reaction only: registering a
\* second one drops the first
PerformThen_single(w, p, handler, d) ==
    IF w.proms[p].state = "pending"
    THEN [w EXCEPT !.proms[p].reactions = <<[handler |-> handler, derived |-> d]>>]
    ELSE [w EXCEPT !.jobs = Append(@, Job(handler, d, w.proms[p].state, w.proms[p].value))]

\* p.then(handler) settling promise d: registered while p is pending, queued
\* as a job at once when p is settled
PerformThen(w, p, handler, d) ==
    IF w.proms[p].state = "pending"
    THEN [w EXCEPT !.proms[p].reactions = Append(@, [handler |-> handler, derived |-> d])]
    ELSE [w EXCEPT !.jobs = Append(@, Job(handler, d, w.proms[p].state, w.proms[p].value))]

\* p.then(handler): the world after it and the new promise it answers
Then(w, p, handler) ==
    LET n == NewPromise(w, <<>>)
    IN  [w |-> PerformThen(n.w, p, handler, n.p), p |-> n.p]

\* Promise.resolve(x): x itself when it is a promise, else a new promise
\* resolved with x
PromiseResolve(w, x) ==
    IF x.t = "promise" THEN [w |-> w, p |-> x.id]
    ELSE LET n == NewPromise(w, <<>>) IN [w |-> ResolvePromise(n.w, n.p, x), p |-> n.p]

\* `await x` inside an async function whose continuation is handler: a
\* promise is waited for; an AsyncResult, being a thenable, is waited for
\* through a new promise that a job resolves by calling its then(); any other
\* value resumes the function in a later job
Await(w, x, handler) ==
    CASE x.t = "promise" -> PerformThen(w, x.id, handler, 0)
      [] x.t = "asyncresult" ->
             LET n == NewPromise(w, <<>>)
                 queued == [n.w EXCEPT !.jobs = Append(@,
                               Job([h |-> "callThenable", wrapper |-> x.promise], n.p,
                                   "fulfilled", Undefined))]
             IN  PerformThen(queued, n.p, handler, 0)
      [] OTHER -> [w EXCEPT !.jobs = Append(@, Job(handler, 0, "fulfilled", x))]

\* ------------------------------------------------ callbacks of the async side
(***************************************************************************)
(* A callback handed to the asynchronous operations is a pipeline fn as    *)
(* above together with the shape in which it hands over what the pipeline  *)
(* made: "plain" returns it (or throws), "promise" is an async function,   *)
(* answering a promise fulfilled with it (or rejected with what was        *)
(* thrown), "async" answers an AsyncResult around such a promise,          *)
(* "pending" answers a promise that an outside party settles later, and    *)
(* "const" is () => other, answering the value other it closes over.       *)
(***************************************************************************)
Callback(fn, shape) == [fn |-> fn, shape |-> shape]
ConstFn(other) == [fn |-> <<"other">>, shape |-> "const", other |-> other]

\* the call cb(v) made on behalf of handle `who`; kind tells whether the
\* pipeline makes a container ("result") or a plain value ("value"); the call
\* is noted in trace and what it returned or threw in rets
CallAsync(w, cb, v, kind, who) ==
    LET HandOver(r, logged) ==
            LET made == IF r.kind = "throw" THEN r.v
                        ELSE IF kind = "result" THEN ResultVal(r.ref) ELSE r.v
                state == IF r.kind = "throw" THEN "rejected" ELSE "fulfilled"
                after == [logged EXCEPT !.heap = r.heap]
            IN  CASE cb.shape = "const" -> [w |-> logged, kind |-> "return", x |-> cb.other]
                  [] cb.shape = "plain" -> [w |-> after, kind |-> r.kind, x |-> made]
                  [] cb.shape = "pending" ->
                         LET n == NewPromise(after, <<[state |-> state, value |-> made]>>)
                         IN  [w |-> n.w, kind |-> "return", x |-> PromiseVal(n.p)]
                  [] OTHER ->
                         LET n == NewPromise(after, <<>>)
                         IN  [w |-> SettlePromise(n.w, n.p, state, made), kind |-> "return",
                              x |-> IF cb.shape = "async" THEN AsyncResultVal(n.p)
                                    ELSE PromiseVal(n.p)]
        Noted(o) == [o EXCEPT !.w.rets = Append(@, [kind |-> o.kind, x |-> o.x])]
    IN  Noted(HandOver(IF kind = "result" THEN CallPipeline(w.heap, cb.fn, v)
                       ELSE CallMapper(cb.fn, v) @@ [heap |-> w.heap],
                       [w EXCEPT !.trace = Append(@, [who |-> who, fn |-> cb, arg |-> v])]))

\* wrapAsync(op) answering the promise of op().then(...) without the catch
Result_wrapAsync_noCatch(w, op, who) ==
    LET Chain(c) ==
            IF c.kind = "throw"
            THEN LET n == New(c.w.heap, ErrImpl(c.x))
                 IN  PromiseResolve([c.w EXCEPT !.heap = n.heap], ResultVal(n.ref))
            ELSE Then(c.w, c.x.id, [h |-> "wrapAsync.then"])
    IN  Chain(CallAsync(w, op, Undefined, "value", who))

\* wrapAsync(op)
Result_wrapAsync(w, op, who) ==
    LET Chain(c) ==
            IF c.kind = "throw"
            THEN LET n == New(c.w.heap, ErrImpl(c.x))
                 IN  PromiseResolve([c.w EXCEPT !.heap = n.heap], ResultVal(n.ref))
            ELSE LET t == Then(c.w, c.x.id, [h |-> "wrapAsync.then"])
                 IN  Then(t.w, t.p, [h |-> "wrapAsync.catch"])
    IN  Chain(CallAsync(w, op, Undefined, "value", who))

\* ---------------------------------------------------------- class AsyncResult
(***************************************************************************)
(* An AsyncResult is the promise in its field `promise`.  The functions    *)
(* its methods hand to thenInternal are async functions: called with the   *)
(* settled container, each makes the promise fn it answers and settles or  *)
(* resolves it as its body runs.  who names the handle being derived, for  *)
(* the trace.                                                              *)
(***************************************************************************)
\* new AsyncResult(start)
AsyncResult_constructor(w, start) == PromiseResolve(w, start)

\* the async function of andThen(mapper) calling the mapper on an Err too,
\* with the value field an Err does not have
andThen_async_noGuard(w, hd, result) ==
    LET n == NewPromise(w, <<>>)
        Return(c) ==
            IF c.kind = "throw" THEN SettlePromise(c.w, n.p, "rejected", c.x)
            ELSE ResolvePromise(c.w, n.p, IF c.x.t = "asyncresult"
                                           THEN PromiseVal(c.x.promise) ELSE c.x)
    IN  [kind |-> "return", x |-> PromiseVal(n.p),
         w |-> Return(CallAsync(n.w, hd.cb, IF IsOkObj(w.heap, result)
                                             THEN w.heap[result].value ELSE Undefined,
                                "result", hd.who))]

\* the async function of andThen(mapper) catching what the mapper throws
\* and returning it in an Err
andThen_async_catches(w, hd, result) ==
    LET n == NewPromise(w, <<>>)
        Return(mapped) ==
            IF mapped.kind = "throw"
            THEN LET e == New(mapped.w.heap, ErrImpl(mapped.x))
                 IN  ResolvePromise([mapped.w EXCEPT !.heap = e.heap], n.p, ResultVal(e.ref))
            ELSE ResolvePromise(mapped.w, n.p, IF mapped.x.t = "asyncresult"
                                                THEN PromiseVal(mapped.x.promise)
                                                ELSE mapped.x)
    IN  [kind |-> "return", x |-> PromiseVal(n.p),
         w |-> IF isErr(w.heap, result).ret.b
               THEN ResolvePromise(n.w, n.p, ResultVal(result))
               ELSE Return(CallAsync(n.w, hd.cb, w.heap[result].value, "result", hd.who))]

\* the async function of andThen(mapper) not waiting for a promise the
\* mapper returned: it returns the container it was called with
andThen_async_noWait(w, hd, result) ==
    LET n == NewPromise(w, <<>>)
        Return(mapped) ==
            IF mapped.kind = "throw" THEN SettlePromise(mapped.w, n.p, "rejected", mapped.x)
            ELSE ResolvePromise(mapped.w, n.p, IF mapped.x.t \in {"asyncresult", "promise"}
                                                THEN ResultVal(result) ELSE mapped.x)
    IN  [kind |-> "return", x |-> PromiseVal(n.p),
         w |-> IF isErr(w.heap, result).ret.b
               THEN ResolvePromise(n.w, n.p, ResultVal(result))
               ELSE Return(CallAsync(n.w, hd.cb, w.heap[result].value, "result", hd.who))]

\* the async function of andThen(mapper), called with the container result;
\* Return(mapped) is what follows the call of the mapper
andThen_async(w, hd, result) ==
    LET n == NewPromise(w, <<>>)
        Return(mapped) ==
            IF mapped.kind = "throw" THEN SettlePromise(mapped.w, n.p, "rejected", mapped.x)
            ELSE ResolvePromise(mapped.w, n.p, IF mapped.x.t = "asyncresult"
                                                THEN PromiseVal(mapped.x.promise)
                                                ELSE mapped.x)
    IN  [kind |-> "return", x |-> PromiseVal(n.p),
         w |-> IF isErr(w.heap, result).ret.b
               THEN ResolvePromise(n.w, n.p, ResultVal(result))
               ELSE Return(CallAsync(n.w, hd.cb, w.heap[result].value, "result", hd.who))]

\* an async function of map/mapErr resumes after its await: it returns the
\* new container around the awaited value, or throws what the awaited promise
\* was rejected with
Resume(w, hd, settled, arg) ==
    IF settled = "rejected" THEN SettlePromise(w, hd.fn, "rejected", arg)
    ELSE LET n == New(w.heap, IF hd.make = "Ok" THEN OkImpl(arg) ELSE ErrImpl(arg))
         IN  ResolvePromise([w EXCEPT !.heap = n.heap], hd.fn, ResultVal(n.ref))

\* the async function of map(mapper) wrapping what the mapper returned
\* without awaiting it
map_async_noAwait(w, hd, result) ==
    LET n == NewPromise(w, <<>>)
        Return(c) ==
            IF c.kind = "throw" THEN SettlePromise(c.w, n.p, "rejected", c.x)
            ELSE Resume(c.w, [fn |-> n.p, make |-> "Ok"], "fulfilled", c.x)
    IN  [kind |-> "return", x |-> PromiseVal(n.p),
         w |-> IF isErr(w.heap, result).ret.b
               THEN ResolvePromise(n.w, n.p, ResultVal(result))
               ELSE Return(CallAsync(n.w, hd.cb, w.heap[result].value, "value", hd.who))]

\* the async function of map(mapper): it awaits what the mapper returned
map_async(w, hd, result) ==
    LET n == NewPromise(w, <<>>)
        Return(c) ==
            IF c.kind = "throw" THEN SettlePromise(c.w, n.p, "rejected", c.x)
            ELSE Await(c.w, c.x, [h |-> "resume", fn |-> n.p, make |-> "Ok"])
    IN  [kind |-> "return", x |-> PromiseVal(n.p),
         w |-> IF isErr(w.heap, result).ret.b
               THEN ResolvePromise(n.w, n.p, ResultVal(result))
               ELSE Return(CallAsync(n.w, hd.cb, w.heap[result].value, "value", hd.who))]

\* the async function of mapErr(mapper)
mapErr_async(w, hd, result) ==
    LET n == NewPromise(w, <<>>)
        Return(c) ==
            IF c.kind = "throw" THEN SettlePromise(c.w, n.p, "rejected", c.x)
            ELSE Await(c.w, c.x, [h |-> "resume", fn |-> n.p, make |-> "Err"])
    IN  [kind |-> "return", x |-> PromiseVal(n.p),
         w |-> IF isOk(w.heap, result).ret.b
               THEN ResolvePromise(n.w, n.p, ResultVal(result))
               ELSE Return(CallAsync(n.w, hd.cb, w.heap[result].error, "value", hd.who))]

\* the async function of orElse(other)
orElse_async(w, hd, result) ==
    LET n == NewPromise(w, <<>>)
        Return(otherValue) ==
            IF otherValue.kind = "throw"
            THEN SettlePromise(otherValue.w, n.p, "rejected", otherValue.x)
            ELSE ResolvePromise(otherValue.w, n.p, IF otherValue.x.t = "asyncresult"
                                                    THEN PromiseVal(otherValue.x.promise)
                                                    ELSE otherValue.x)
    IN  [kind |-> "return", x |-> PromiseVal(n.p),
         w |-> IF isOk(w.heap, result).ret.b
               THEN ResolvePromise(n.w, n.p, ResultVal(result))
               ELSE Return(CallAsync(n.w, hd.cb, w.heap[result].error, "result", hd.who))]

\* the functions handed to then(): the resolving functions of promise p,
\* or none
ResolveFn(p) == [f |-> "resolve", target |-> p]
RejectFn(p) == [f |-> "reject", target |-> p]
NoFn == [f |-> "none"]

\* then(onfulfilled, onrejected) leaving out onrejected
AsyncResult_then_dropsRejected(w, self, onfulfilled, onrejected) ==
    Then(w, self, [h |-> "then", onfulfilled |-> onfulfilled, onrejected |-> NoFn])

\* then(onfulfilled, onrejected): this.promise.then(onfulfilled, onrejected)
AsyncResult_then(w, self, onfulfilled, onrejected) ==
    Then(w, self, [h |-> "then", onfulfilled |-> onfulfilled, onrejected |-> onrejected])

\* ------------------------------------------------------------- promise jobs
\* the call of a handler function with the settlement it reacts to
CallHandler(w, hd, settled, arg) ==
    CASE hd.h = "andThen" -> andThen_async(w, hd, arg.ref)
      [] hd.h = "map" -> map_async(w, hd, arg.ref)
      [] hd.h = "mapErr" -> mapErr_async(w, hd, arg.ref)
      [] hd.h = "orElse" -> orElse_async(w, hd, arg.ref)
      [] hd.h = "resume" -> [kind |-> "return", x |-> Undefined, w |-> Resume(w, hd, settled, arg)]
      [] hd.h = "then" ->
             LET fn == IF settled = "fulfilled" THEN hd.onfulfilled ELSE hd.onrejected
             IN  [kind |-> "return", x |-> Undefined,
                  w |-> IF fn.f = "resolve" THEN ResolvePromise(w, fn.target, arg)
                        ELSE SettlePromise(w, fn.target, "rejected", arg)]
      [] hd.h = "awaited" ->
             [kind |-> "return", x |-> Undefined,
              w |-> IF settled = "fulfilled" THEN ResolvePromise(w, hd.fn, arg)
                    ELSE SettlePromise(w, hd.fn, "rejected", arg)]
      [] hd.h = "toOption" ->
             [kind |-> "return", x |-> OptionVal(toOption(w.heap, arg.ref).ret.o), w |-> w]
      [] hd.h = "wrapAsync.then" ->
             LET n == New(w.heap, OkImpl(arg))
             IN  [kind |-> "return", x |-> ResultVal(n.ref), w |-> [w EXCEPT !.heap = n.heap]]
      [] hd.h = "wrapAsync.catch" ->
             LET n == New(w.heap, ErrImpl(arg))
             IN  [kind |-> "return", x |-> ResultVal(n.ref), w |-> [w EXCEPT !.heap = n.heap]]

\* the handler has a function for a fulfilment / for a rejection
OnFulfilled(hd) ==
    IF hd.h = "then" THEN hd.onfulfilled # NoFn ELSE hd.h \notin {"adopt", "wrapAsync.catch"}
OnRejected(hd) ==
    IF hd.h = "then" THEN hd.onrejected # NoFn
    ELSE hd.h \in {"wrapAsync.catch", "resume", "awaited"}

\* the first job of the queue run by a platform whose reaction without a
\* function for a rejection passes the rejection on without its reason
RunJob_losesReason(w0) ==
    LET job == Head(w0.jobs)
        w == [w0 EXCEPT !.jobs = Tail(@)]
        hd == job.handler
        Settle(r) ==
            IF job.derived = 0 THEN r.w
            ELSE IF r.kind = "throw" THEN SettlePromise(r.w, job.derived, "rejected", r.x)
            ELSE ResolvePromise(r.w, job.derived, r.x)
    IN  IF hd.h = "callThen" THEN PerformThen(w, hd.thenable, [h |-> "adopt"], job.derived)
        ELSE IF hd.h = "callThenable"
        THEN AsyncResult_then(w, hd.wrapper, ResolveFn(job.derived), RejectFn(job.derived)).w
        ELSE IF job.settled = "fulfilled" /\ ~OnFulfilled(hd)
        THEN SettlePromise(w, job.derived, job.settled, job.arg)
        ELSE IF job.settled = "rejected" /\ ~OnRejected(hd)
        THEN SettlePromise(w, job.derived, "rejected", Undefined)
        ELSE Settle(CallHandler(w, hd, job.settled, job.arg))

\* run the first job of the queue: a job that adopts a promise calls its
\* then(), one that resolves a promise with an AsyncResult calls the then()
\* of the AsyncResult with the promise's resolving functions; a reaction without a function for the settlement passes it on to
\* the derived promise; else the function runs and what it returns resolves
\* the derived promise, what it throws rejects it
RunJob(w0) ==
    LET job == Head(w0.jobs)
        w == [w0 EXCEPT !.jobs = Tail(@)]
        hd == job.handler
        Settle(r) ==
            IF job.derived = 0 THEN r.w
            ELSE IF r.kind = "throw" THEN SettlePromise(r.w, job.derived, "rejected", r.x)
            ELSE ResolvePromise(r.w, job.derived, r.x)
    IN  IF hd.h = "callThen" THEN PerformThen(w, hd.thenable, [h |-> "adopt"], job.derived)
        ELSE IF hd.h = "callThenable"
        THEN AsyncResult_then(w, hd.wrapper, ResolveFn(job.derived), RejectFn(job.derived)).w
        ELSE IF \/ job.settled = "fulfilled" /\ ~OnFulfilled(hd)
                \/ job.settled = "rejected" /\ ~OnRejected(hd)
        THEN SettlePromise(w, job.derived, job.settled, job.arg)
        ELSE Settle(CallHandler(w, hd, job.settled, job.arg))

\* ------------------------------------------------- methods of AsyncResult
\* thenInternal(mapper) calling the mapper at once when the promise is
\* settled already
AsyncResult_thenInternal_eager(w, self, handler) ==
    LET t == Then(w, self, handler)
        queued == t.w.jobs
        now == [t.w EXCEPT !.jobs = <<queued[Len(queued)]>> \o SubSeq(queued, 1, Len(queued) - 1)]
    IN  IF w.proms[self].state = "pending" THEN [w |-> t.w, p |-> t.p]
        ELSE [w |-> RunJob(now), p |-> t.p]

\* thenInternal(mapper): new AsyncResult(this.promise.then(mapper))
AsyncResult_thenInternal(w, self, handler) ==
    LET t == Then(w, self, handler) IN AsyncResult_constructor(t.w, PromiseVal(t.p))

AsyncResult_andThen(w, self, mapper, who) ==
    AsyncResult_thenInternal(w, self, [h |-> "andThen", cb |-> mapper, who |-> who])

AsyncResult_map(w, self, mapper, who) ==
    AsyncResult_thenInternal(w, self, [h |-> "map", cb |-> mapper, who |-> who])

AsyncResult_mapErr(w, self, mapper, who) ==
    AsyncResult_thenInternal(w, self, [h |-> "mapErr", cb |-> mapper, who |-> who])

AsyncResult_orElse(w, self, other, who) ==
    AsyncResult_thenInternal(w, self, [h |-> "orElse", cb |-> other, who |-> who])

\* or(other) using other when the wrapper settles to an Ok
AsyncResult_or_onOk(w, self, other, who) == AsyncResult_andThen(w, self, ConstFn(other), who)

AsyncResult_or(w, self, other, who) == AsyncResult_orElse(w, self, ConstFn(other), who)

\* new AsyncOption(start)
AsyncOption_constructor(w, start) == PromiseResolve(w, start)

\* toOption(): new AsyncOption(this.promise.then((result) => result.toOption()))
AsyncResult_toOption(w, self) ==
    LET t == Then(w, self, [h |-> "toOption"]) IN AsyncOption_constructor(t.w, PromiseVal(t.p))

\* toAsyncResult() of OkImpl and of ErrImpl: new AsyncResult(this)
toAsyncResult(w, self) == AsyncResult_constructor(w, ResultVal(self))

\* ------------------------------------------------------------- the client
(***************************************************************************)
(* The library keeps no state of its own besides the EMPTY singletons: the *)
(* state is the client's.  heap holds the containers the client has        *)
(* constructed; last is the call the client has just made, with the heap   *)
(* before it and its outcome.  Objects a call allocates are reachable only *)
(* from its outcome, so they are gone once the client drops it.            *)
(***************************************************************************)
(* The asynchronous side adds the platform's promises and its queue of     *)
(* microtasks: proms holds the promises, jobs the queued promise jobs,     *)
(* draining tells that the queue is being run, asyncs holds the wrappers   *)
(* and promises the client has in hand with how it got each, trace the     *)
(* callback invocations in the order they happened, and rets what each of  *)
(* them returned or threw.  rx is the one stream pipeline the client has   *)
(* subscribed to, with what went through it.                               *)
VARIABLES heap, last, proms, jobs, draining, asyncs, trace, rets, rx

avars == <<proms, jobs, draining, asyncs, trace, rets, rx>>
vars == <<heap, last, proms, jobs, draining, asyncs, trace, rets, rx>>

\* the world the asynchronous operations work on
World == [heap |-> heap, proms |-> proms, jobs |-> jobs, trace |-> trace, rets |-> rets]

NoCall == [op |-> "none"]

Refs == 1 .. Len(heap)

\* callbacks the client supplies
Mappers == {<<"inc">>, <<"dbl">>, <<"boom">>}
ResultFns == {<<"inc", "Ok">>, <<"Err">>, <<"Err.EMPTY">>, <<"boom">>}
\* callbacks without argument, handed to wrap
WrapFns == {<<"zero">>, <<"zero", "inc">>, <<"boom">>, <<"zero", "boom">>}
\* arrays of options of at most MaxLen elements
OptionArrays == UNION {[1 .. n -> {None} \cup {Some(v) : v \in Nums}] : n \in 0 .. MaxLen}
\* payloads that are iterable themselves
IterablePayloads == {Arr(<<>>), Arr(<<Num(0)>>), Arr(<<Num(0), Num(1), Num(0)>>)}
Msgs == {"should fail!", "should not fail!"}
KeyNames == <<"a", "b", "c", "d", "e">>

Throws(fn) == \E i \in 1 .. Len(fn) : fn[i] = "boom"

\* arrays of containers of at most MaxLen elements
RefArrays == UNION {[1 .. n -> Refs] : n \in 0 .. MaxLen}

\* records of containers of at most MaxLen keys
RefRecords == {[i \in 1 .. Len(a) |-> <<KeyNames[i], a[i]>>] : a \in RefArrays}

\* the objects of the heap the client keeps once it has looked at an outcome
Retain(h, n) == SubSeq(h, 1, n)

\* the client has no outcome in hand and may construct or call
Idle == last = NoCall

Init ==
    /\ heap = InitHeap
    /\ last = NoCall
    /\ proms = <<>>
    /\ jobs = <<>>
    /\ draining = FALSE
    /\ asyncs = <<>>
    /\ trace = <<>>
    /\ rets = <<>>
    /\ rx = [op |-> "none"]

\* Ok(v) / new Ok(v)
NewOk(v) ==
    /\ Idle
    /\ Len(heap) < MaxHeap
    /\ heap' = New(heap, OkImpl(v)).heap
    /\ UNCHANGED <<last, avars>>

\* Err(e) / new Err(e)
NewErr(e) ==
    /\ Idle
    /\ Len(heap) < MaxHeap
    /\ heap' = New(heap, ErrImpl(e)).heap
    /\ UNCHANGED <<last, avars>>

\* the client makes the call `call` whose outcome is out
Do(call, out) ==
    /\ Idle
    /\ last' = call @@ [pre |-> heap, out |-> out]
    /\ heap' = Retain(out.heap, Len(heap))
    /\ UNCHANGED avars

Drop ==
    /\ last # NoCall
    /\ last' = NoCall
    /\ UNCHANGED <<heap, avars>>

CallIsOk(self) == Do([op |-> "isOk", self |-> self], isOk(heap, self))
CallIsErr(self) == Do([op |-> "isErr", self |-> self], isErr(heap, self))
CallUnwrap(self) == Do([op |-> "unwrap", self |-> self], unwrap(heap, self))
CallUnwrapErr(self) == Do([op |-> "unwrapErr", self |-> self], unwrapErr(heap, self))
CallExpect(self, msg) ==
    Do([op |-> "expect", self |-> self, msg |-> msg], expect(heap, self, msg))
CallExpectErr(self, msg) ==
    Do([op |-> "expectErr", self |-> self, msg |-> msg], expectErr(heap, self, msg))
CallUnwrapOr(self, val) ==
    Do([op |-> "unwrapOr", self |-> self, val |-> val], unwrapOr(heap, self, val))
CallUnwrapOrElse(self, fn) ==
    Do([op |-> "unwrapOrElse", self |-> self, fn |-> fn], unwrapOrElse(heap, self, fn))
CallMap(self, fn) == Do([op |-> "map", self |-> self, fn |-> fn], map(heap, self, fn))
CallMapErr(self, fn) == Do([op |-> "mapErr", self |-> self, fn |-> fn], mapErr(heap, self, fn))
CallMapOr(self, val, fn) ==
    Do([op |-> "mapOr", self |-> self, val |-> val, fn |-> fn], mapOr(heap, self, val, fn))
CallMapOrElse(self, dfn, fn) ==
    Do([op |-> "mapOrElse", self |-> self, dfn |-> dfn, fn |-> fn],
       mapOrElse(heap, self, dfn, fn))
CallAndThen(self, fn) ==
    Do([op |-> "andThen", self |-> self, fn |-> fn], andThen(heap, self, fn))
CallOr(self, other) == Do([op |-> "or", self |-> self, other |-> other], or(heap, self, other))
CallOrElse(self, fn) == Do([op |-> "orElse", self |-> self, fn |-> fn], orElse(heap, self, fn))
CallToOption(self) == Do([op |-> "toOption", self |-> self], toOption(heap, self))

CallAll(items) ==
    Do([op |-> "all", results |-> items], Result_all(heap, ArrayOf(items)))
CallAllRecord(entries) ==
    Do([op |-> "allRecord", entries |-> entries], Result_all(heap, RecordOf(entries)))
CallAny(items) == Do([op |-> "any", results |-> items], Result_any(heap, items))
CallPartition(items) ==
    Do([op |-> "partition", results |-> items], Result_partition(heap, items))
\* Result.all(rs) and Result.any(rs) next to Result.partition(rs) on the same
\* array
CallAllAnyPartition(items) ==
    Do([op |-> "all.any.partition", results |-> items,
        all |-> Result_all(heap, ArrayOf(items)), any |-> Result_any(heap, items)],
       Result_partition(heap, items))
CallWrap(fn) == Do([op |-> "wrap", fn |-> fn], Result_wrap(heap, fn))

\* r.map(f).map(g), next to r.map(x => g(f(x))) on the same receiver
CallMapMap(self, f, g) ==
    LET first == map(heap, self, f)
        second == IF first.raised = NoRaise THEN map(first.heap, first.ret.id, g) ELSE first
    IN  Do([op |-> "map.map", self |-> self, f |-> f, g |-> g,
            first |-> first,
            composed |-> map(heap, self, Compose(f, g))],
           [second EXCEPT !.calls = IF first.raised = NoRaise
                                    THEN first.calls \o second.calls ELSE first.calls])

\* r.andThen(f).andThen(g), next to r.andThen(x => f(x).andThen(g)) on the
\* same receiver
CallAndThenAndThen(self, f, g) ==
    LET first == andThen(heap, self, f)
        second == IF first.raised = NoRaise THEN andThen(first.heap, first.ret.id, g) ELSE first
    IN  Do([op |-> "andThen.andThen", self |-> self, f |-> f, g |-> g,
            first |-> first,
            nested |-> andThen(heap, self, Bind(f, g))],
           [second EXCEPT !.calls = IF first.raised = NoRaise
                                    THEN first.calls \o second.calls ELSE first.calls])

\* r.toOption().toResult(error)
CallToOptionToResult(self, error) ==
    LET first == toOption(heap, self)
    IN  Do([op |-> "toOption.toResult", self |-> self, error |-> error, first |-> first],
           Option_toResult(first.heap, first.ret.o, error))

\* Option.all(options), next to Option.all(...options)
CallOptionAll(options) ==
    Do([op |-> "Option.all", options |-> options, spread |-> Option_all(heap, options)],
       Option_all(heap, <<Arr(options)>>))

\* Option.any(options), next to Option.any(...options)
CallOptionAny(options) ==
    Do([op |-> "Option.any", options |-> options, spread |-> Option_any(heap, options)],
       Option_any(heap, <<Arr(options)>>))

\* Array.from(r), twice on the same container
CallArrayFrom(self) ==
    LET a == ArrayFrom(heap, <<>>, self)
        b == ArrayFrom(heap, a.its, self)
    IN  Do([op |-> "Array.from", self |-> self, again |-> Arr(b.items), iterators |-> b.its],
           Returns(heap, RetVal(Arr(a.items)), <<>>))

\* Array.from(Ok(payload)) of a payload that is iterable itself
CallArrayFromOk(payload) ==
    LET n == New(heap, OkImpl(payload))
        a == ArrayFrom(n.heap, <<>>, n.ref)
    IN  Do([op |-> "Array.from(Ok)", payload |-> payload, iterators |-> a.its],
           Returns(n.heap, RetVal(Arr(a.items)), <<>>))

\* r.toAsyncResult(), as a call of the synchronous client: the outcome is the
\* promise of the new wrapper
CallToAsyncResult(self) ==
    LET o == toAsyncResult(World, self)
    IN  Do([op |-> "toAsyncResult", self |-> self],
           Returns(o.w.heap, [k |-> "async", promise |-> o.w.proms[o.p]], <<>>))

Next ==
    \/ Idle /\ \E v \in Nums : NewOk(v)
    \/ Idle /\ \E e \in Nums : NewErr(e)
    \/ Drop
    \/ Idle /\ \E self \in Refs : CallIsOk(self)
    \/ Idle /\ \E self \in Refs : CallIsErr(self)
    \/ Idle /\ \E self \in Refs : CallUnwrap(self)
    \/ Idle /\ \E self \in Refs : CallUnwrapErr(self)
    \/ Idle /\ \E self \in Refs, msg \in Msgs : CallExpect(self, msg)
    \/ Idle /\ \E self \in Refs, msg \in Msgs : CallExpectErr(self, msg)
    \/ Idle /\ \E self \in Refs, val \in Nums : CallUnwrapOr(self, val)
    \/ Idle /\ \E self \in Refs, fn \in Mappers : CallUnwrapOrElse(self, fn)
    \/ Idle /\ \E self \in Refs, fn \in Mappers : CallMap(self, fn)
    \/ Idle /\ \E self \in Refs, fn \in Mappers : CallMapErr(self, fn)
    \/ Idle /\ \E self \in Refs, val \in Nums, fn \in Mappers : CallMapOr(self, val, fn)
    \/ Idle /\ \E self \in Refs, dfn \in Mappers, fn \in Mappers : CallMapOrElse(self, dfn, fn)
    \/ Idle /\ \E self \in Refs, fn \in ResultFns : CallAndThen(self, fn)
    \/ Idle /\ \E self \in Refs, other \in Refs : CallOr(self, other)
    \/ Idle /\ \E self \in Refs, fn \in ResultFns : CallOrElse(self, fn)
    \/ Idle /\ \E self \in Refs : CallToOption(self)
    \/ Idle /\ \E items \in RefArrays : CallAll(items)
    \/ Idle /\ \E entries \in RefRecords : CallAllRecord(entries)
    \/ Idle /\ \E items \in RefArrays : CallAny(items)
    \/ Idle /\ \E items \in RefArrays : CallPartition(items)
    \/ Idle /\ \E fn \in WrapFns : CallWrap(fn)
    \/ Idle /\ \E self \in Refs, f \in Mappers, g \in Mappers : CallMapMap(self, f, g)
    \/ Idle /\ \E self \in Refs, error \in Nums : CallToOptionToResult(self, error)
    \/ Idle /\ \E self \in Refs : CallToAsyncResult(self)
    \/ Idle /\ \E self \in Refs : CallArrayFrom(self)
    \/ Idle /\ \E payload \in IterablePayloads : CallArrayFromOk(payload)
    \/ Idle /\ \E self \in Refs, f \in ResultFns, g \in ResultFns :
                  CallAndThenAndThen(self, f, g)
    \/ Idle /\ \E options \in OptionArrays : CallOptionAll(options)
    \/ Idle /\ \E options \in OptionArrays : CallOptionAny(options)
    \/ Idle /\ \E items \in RefArrays : CallAllAnyPartition(items)

Spec == Init /\ [][Next]_vars

\* ------------------------------------------------------------------ claims
\* what a claim reads of the call in `last`
Pre == last.pre
Out == last.out
IsErrAt(i) == Pre[last.results[i]].tag = "Err"
IsOkAt(i) == Pre[last.results[i]].tag = "Ok"
UpTo(n) == [k \in 1 .. n |-> k]
\* the call allocated nothing and changed nothing
HeapUntouched == Out.heap = Pre
\* the call returned a container it allocated itself
RetIsFresh == Out.ret.k = "ref" /\ Out.ret.id = Len(Pre) + 1 /\ Len(Out.heap) = Len(Pre) + 1

\* the payloads of the Ok elements, and of the Err elements, of an array in input order
OkPayloads(h, items) ==
    LET oks == SelectSeq(items, LAMBDA r : h[r].tag = "Ok")
    IN  [i \in 1 .. Len(oks) |-> h[oks[i]].value]
ErrPayloads(h, items) ==
    LET errs == SelectSeq(items, LAMBDA r : h[r].tag = "Err")
    IN  [i \in 1 .. Len(errs) |-> h[errs[i]].error]

\* C1: Result.all on an array holding an Err returns the very container of the
\* lowest-index Err (same identity, nothing allocated) and asks isOk() of the
\* elements up to that index only.
C1_AllReturnsFirstErr ==
    last.op = "all" =>
        \A i \in 1 .. Len(last.results) :
            (IsErrAt(i) /\ \A j \in 1 .. (i - 1) : IsOkAt(j)) =>
                /\ Out.raised = NoRaise
                /\ Out.ret = RetRef(last.results[i])
                /\ HeapUntouched
                /\ Out.seen = UpTo(i)

\* an all() call on an array with an Ok, then an Err, then a different Err object
C1_Witness ==
    /\ last.op = "all"
    /\ \E i, j \in 1 .. Len(last.results) :
          /\ 1 < i /\ i < j
          /\ IsOkAt(1) /\ IsErrAt(i) /\ IsErrAt(j)
          /\ last.results[i] # last.results[j]
          /\ Out.ret = RetRef(last.results[i])

\* C2: Result.all on an array without any Err returns a new Ok whose payload is
\* the array of the inputs' payloads, position by position, for every length
\* from 0 on.
C2_AllCollectsPayloads ==
    (last.op = "all" /\ \A i \in 1 .. Len(last.results) : IsOkAt(i)) =>
        /\ Out.raised = NoRaise
        /\ RetIsFresh
        /\ Out.heap[Out.ret.id].tag = "Ok"
        /\ Out.heap[Out.ret.id].value.t = "arr"
        /\ Len(Out.heap[Out.ret.id].value.items) = Len(last.results)
        /\ \A i \in 1 .. Len(last.results) :
              Out.heap[Out.ret.id].value.items[i] = Pre[last.results[i]].value

\* an all() call on two or more Ok containers whose payloads differ
C2_Witness ==
    /\ last.op = "all"
    /\ Len(last.results) >= 2
    /\ \A i \in 1 .. Len(last.results) : IsOkAt(i)
    /\ Pre[last.results[1]].value # Pre[last.results[2]].value
    /\ Out.ret.k = "ref" /\ Out.heap[Out.ret.id].tag = "Ok"

\* all([]) on the empty array
C2_WitnessEmpty ==
    /\ last.op = "all"
    /\ last.results = <<>>
    /\ Out.heap[Out.ret.id] = OkImpl(Arr(<<>>))

\* the keys of a record argument whose entries are Err, and those that are Ok
ErrKeys == {last.entries[i][1] : i \in {k \in 1 .. Len(last.entries) : Pre[last.entries[k][2]].tag = "Err"}}
AllKeys == {last.entries[i][1] : i \in 1 .. Len(last.entries)}
EntryOf(key) == last.entries[CHOOSE i \in 1 .. Len(last.entries) : last.entries[i][1] = key][2]

\* C3: Result.all on a record examines every entry; with an Err entry it returns
\* a new Err whose payload has exactly the keys of the Err entries, each with
\* that entry's error; without one, a new Ok mapping every key to its payload.
C3_AllRecordCollectsEveryErr ==
    last.op = "allRecord" =>
        /\ Out.raised = NoRaise
        /\ RetIsFresh
        /\ Out.seen = [i \in 1 .. Len(last.entries) |-> last.entries[i][1]]
        /\ IF ErrKeys # {}
           THEN /\ Out.heap[Out.ret.id].tag = "Err"
                /\ Out.heap[Out.ret.id].error.t = "obj"
                /\ DOMAIN Out.heap[Out.ret.id].error.m = ErrKeys
                /\ \A key \in ErrKeys :
                      Out.heap[Out.ret.id].error.m[key] = Pre[EntryOf(key)].error
           ELSE /\ Out.heap[Out.ret.id].tag = "Ok"
                /\ Out.heap[Out.ret.id].value.t = "obj"
                /\ DOMAIN Out.heap[Out.ret.id].value.m = AllKeys
                /\ \A key \in AllKeys :
                      Out.heap[Out.ret.id].value.m[key] = Pre[EntryOf(key)].value

\* an all() call on a record with an Err entry, an Ok entry after it and a second
\* Err entry after that
C3_Witness ==
    /\ last.op = "allRecord"
    /\ \E i, j, k \in 1 .. Len(last.entries) :
          /\ i < j /\ j < k
          /\ Pre[last.entries[i][2]].tag = "Err"
          /\ Pre[last.entries[j][2]].tag = "Ok"
          /\ Pre[last.entries[k][2]].tag = "Err"
          /\ Cardinality(DOMAIN Out.heap[Out.ret.id].error.m) = 2

\* C4: Result.any returns the very container of the lowest-index Ok and asks
\* isOk() of no later element; without any Ok (the empty array included) it
\* returns a new Err wrapping every error payload in input order.
C4_AnyReturnsFirstOk ==
    last.op = "any" =>
        /\ Out.raised = NoRaise
        /\ \A i \in 1 .. Len(last.results) :
              (IsOkAt(i) /\ \A j \in 1 .. (i - 1) : IsErrAt(j)) =>
                  /\ Out.ret = RetRef(last.results[i])
                  /\ HeapUntouched
                  /\ Out.seen = UpTo(i)
        /\ (\A i \in 1 .. Len(last.results) : IsErrAt(i)) =>
              /\ RetIsFresh
              /\ Out.heap[Out.ret.id].tag = "Err"
              /\ Out.heap[Out.ret.id].error = Arr(ErrPayloads(Pre, last.results))
              /\ Len(Out.heap[Out.ret.id].error.items) = Len(last.results)
              /\ \A i \in 1 .. Len(last.results) :
                    Out.heap[Out.ret.id].error.items[i] = Pre[last.results[i]].error

\* an any() call on an array with an Err, then an Ok, then a different Ok object
C4_Witness ==
    /\ last.op = "any"
    /\ \E i, j \in 1 .. Len(last.results) :
          /\ 1 < i /\ i < j
          /\ IsErrAt(1) /\ IsOkAt(i) /\ IsOkAt(j)
          /\ last.results[i] # last.results[j]
          /\ Out.ret = RetRef(last.results[i])

\* an any() call on two Err containers of different payloads
C4_WitnessAllErr ==
    /\ last.op = "any"
    /\ Len(last.results) = 2
    /\ IsErrAt(1) /\ IsErrAt(2)
    /\ Pre[last.results[1]].error # Pre[last.results[2]].error
    /\ Out.heap[Out.ret.id].tag = "Err"

\* C5: Result.partition looks at every element and returns the pair of the Ok
\* payloads and of the Err payloads, each in input order; the two lengths add
\* up to the input's.
C5_PartitionSplitsAll ==
    last.op = "partition" =>
        /\ Out.raised = NoRaise
        /\ Out.ret.k = "pair"
        /\ Out.ret.oks = OkPayloads(Pre, last.results)
        /\ Out.ret.errors = ErrPayloads(Pre, last.results)
        /\ Len(Out.ret.oks) + Len(Out.ret.errors) = Len(last.results)
        /\ Out.seen = UpTo(Len(last.results))
        /\ HeapUntouched

\* a partition() call on an array with an Err before an Ok and two Oks of
\* different payloads
C5_Witness ==
    /\ last.op = "partition"
    /\ \E i, j \in 1 .. Len(last.results) : i < j /\ IsErrAt(i) /\ IsOkAt(j)
    /\ Len(Out.ret.oks) = 2 /\ Out.ret.oks[1] # Out.ret.oks[2]
    /\ Len(Out.ret.errors) >= 1

\* the receiver of a method call, before the call
Self == Pre[last.self]
SelfIsOk == Self.tag = "Ok"
SelfIsErr == Self.tag = "Err"
HasPart(message, part) == \E i \in 1 .. Len(message) : message[i] = part

\* C6: unwrap() on Ok(v) returns v and unwrapErr() on Err(e) returns e; unwrap()
\* on Err(e) raises an Error whose cause is e and unwrapErr() on Ok(v) raises an
\* Error whose cause is v.
C6_UnwrapReturnsOrRaisesWithCause ==
    /\ (last.op = "unwrap" /\ SelfIsOk) => (Out.raised = NoRaise /\ Out.ret = RetVal(Self.value))
    /\ (last.op = "unwrap" /\ SelfIsErr) =>
          (Out.ret = RetNever /\ Out.raised.k = "Error" /\ Out.raised.cause = Self.error)
    /\ (last.op = "unwrapErr" /\ SelfIsErr) =>
          (Out.raised = NoRaise /\ Out.ret = RetVal(Self.error))
    /\ (last.op = "unwrapErr" /\ SelfIsOk) =>
          (Out.ret = RetNever /\ Out.raised.k = "Error" /\ Out.raised.cause = Self.value)

\* unwrapErr() has raised on an Ok holding a number
C6_Witness ==
    /\ last.op = "unwrapErr"
    /\ SelfIsOk /\ Self.value \in Nums
    /\ Out.raised.k = "Error"

\* unwrap() has raised on an Err holding a number
C6_WitnessUnwrap ==
    /\ last.op = "unwrap"
    /\ SelfIsErr /\ Self.error \in Nums
    /\ Out.raised.k = "Error"

\* C7: expect(msg) on Err(e) and expectErr(msg) on Ok(v) raise an Error whose
\* message carries msg and whose cause is e, respectively v; on the matching
\* variant each returns the payload.
C7_ExpectRaisesWithMsgAndCause ==
    /\ (last.op = "expect" /\ SelfIsOk) => (Out.raised = NoRaise /\ Out.ret = RetVal(Self.value))
    /\ (last.op = "expect" /\ SelfIsErr) =>
          /\ Out.raised.k = "Error"
          /\ HasPart(Out.raised.message, Lit(last.msg))
          /\ Out.raised.cause = Self.error
    /\ (last.op = "expectErr" /\ SelfIsErr) =>
          (Out.raised = NoRaise /\ Out.ret = RetVal(Self.error))
    /\ (last.op = "expectErr" /\ SelfIsOk) =>
          /\ Out.raised.k = "Error"
          /\ HasPart(Out.raised.message, Lit(last.msg))
          /\ Out.raised.cause = Self.value

\* the callbacks the client handed to the call in `last`
CallFns ==
    CASE last.op \in {"unwrapOrElse", "map", "mapErr", "mapOr", "andThen", "orElse", "wrap"} ->
             {last.fn}
      [] last.op = "mapOrElse" -> {last.dfn, last.fn}
      [] last.op \in {"map.map", "andThen.andThen"} -> {last.f, last.g}
      [] OTHER -> {}
NoCallbackThrows == \A fn \in CallFns : ~Throws(fn)

NonRaisingOps ==
    {"isOk", "isErr", "unwrapOr", "unwrapOrElse", "map", "mapErr", "mapOr", "mapOrElse",
     "andThen", "or", "orElse", "toOption", "all", "allRecord", "any", "partition", "wrap",
     "map.map", "all.any.partition"}

\* the call in `last` is an unwrap/expect-family call on the wrong variant
WrongVariantCall ==
    \/ last.op \in {"unwrap", "expect"} /\ SelfIsErr
    \/ last.op \in {"unwrapErr", "expectErr"} /\ SelfIsOk

\* C8: with callbacks that do not raise, no call of isOk, isErr, unwrapOr,
\* unwrapOrElse, map, mapErr, mapOr, mapOrElse, andThen, or, orElse, toOption,
\* all, any, partition or wrap raises; whatever is raised is an Error made by
\* unwrap, unwrapErr, expect or expectErr called on the wrong variant.
C8_OnlyWrongVariantCallsRaise ==
    (last.op # "none" /\ NoCallbackThrows) =>
        /\ last.op \in NonRaisingOps => (Out.raised = NoRaise /\ Out.ret # RetNever)
        /\ Out.raised # NoRaise => (WrongVariantCall /\ Out.raised.k = "Error")

\* orElse() has invoked a callback on an Err and returned the Err the callback made
C8_Witness ==
    /\ last.op = "orElse"
    /\ SelfIsErr
    /\ Len(Out.calls) = 1
    /\ Out.raised = NoRaise
    /\ Out.ret.k = "ref" /\ Out.heap[Out.ret.id].tag = "Err"

\* C9: andThen(fn) on Ok(v) invokes fn once, with v, and returns the very
\* container fn returned; on Err it returns the receiver itself and never
\* invokes fn.
C9_AndThenBinds ==
    last.op = "andThen" =>
        IF SelfIsOk
        THEN LET r == CallResultFn(Pre, last.fn, Self.value)
             IN  /\ Out.calls = <<Invocation(last.fn, Self.value)>>
                 /\ r.kind = "return" =>
                       (Out.raised = NoRaise /\ Out.ret = RetRef(r.ref) /\ Out.heap = r.heap)
        ELSE /\ Out.calls = <<>>
             /\ Out.raised = NoRaise
             /\ Out.ret = RetRef(last.self)
             /\ HeapUntouched

\* andThen() on an Ok holding a number, with a callback that answered an Err
C9_Witness ==
    /\ last.op = "andThen"
    /\ SelfIsOk /\ Self.value \in Nums
    /\ Len(Out.calls) = 1
    /\ Out.ret.k = "ref" /\ Out.heap[Out.ret.id].tag = "Err"

\* andThen() on an Err, handed a callback that would have thrown
C9_WitnessErr ==
    /\ last.op = "andThen"
    /\ SelfIsErr
    /\ Throws(last.fn)
    /\ Out.ret = RetRef(last.self)

\* the container a call returned
RetObj(o) == o.heap[o.ret.id]

\* C10: for callbacks f and g that do not raise, Ok(v).map(f).map(g) has the
\* variant and payload of Ok(v).map(x => g(f(x))); map on an Err returns the
\* receiver itself without invoking the callback, and so does mapErr on an Ok.
C10_MapFunctorLaw ==
    /\ (last.op = "map.map" /\ SelfIsOk /\ NoCallbackThrows) =>
          /\ Out.raised = NoRaise /\ last.composed.raised = NoRaise
          /\ RetObj(Out) = RetObj(last.composed)
          /\ RetObj(Out).tag = "Ok"
    /\ (last.op = "map.map" /\ SelfIsErr) =>
          /\ Out.ret = RetRef(last.self) /\ Out.calls = <<>> /\ HeapUntouched
          /\ last.first.ret = RetRef(last.self) /\ last.first.calls = <<>>
          /\ last.composed.ret = RetRef(last.self) /\ last.composed.calls = <<>>
    /\ (last.op = "map" /\ SelfIsErr) =>
          (Out.raised = NoRaise /\ Out.ret = RetRef(last.self) /\ Out.calls = <<>>
           /\ HeapUntouched)
    /\ (last.op = "mapErr" /\ SelfIsOk) =>
          (Out.raised = NoRaise /\ Out.ret = RetRef(last.self) /\ Out.calls = <<>>
           /\ HeapUntouched)

\* map(f).map(g) on an Ok with f and g that do not commute on its payload
C10_Witness ==
    /\ last.op = "map.map"
    /\ SelfIsOk /\ NoCallbackThrows
    /\ CallMapper(Compose(last.f, last.g), Self.value) # CallMapper(Compose(last.g, last.f), Self.value)
    /\ Len(Out.calls) = 2
    /\ RetObj(Out).value = CallMapper(Compose(last.f, last.g), Self.value).v

\* map() on an Err, handed a callback that would have thrown
C10_WitnessErr ==
    /\ last.op = "map"
    /\ SelfIsErr
    /\ Throws(last.fn)
    /\ Out.ret = RetRef(last.self)

\* the invocations of callback fn in a log
CallsOf(log, fn) == SelectSeq(log, LAMBDA c : c.fn = fn)

\* C11: for container-returning callbacks f and g that do not raise,
\* c.andThen(f).andThen(g) has the variant and payload of
\* c.andThen(x => f(x).andThen(g)), on an Ok and on an Err receiver, and g is
\* invoked in the one exactly when it is invoked in the other.
C11_AndThenAssociative ==
    (last.op = "andThen.andThen" /\ NoCallbackThrows) =>
        /\ Out.raised = NoRaise /\ last.nested.raised = NoRaise
        /\ RetObj(Out) = RetObj(last.nested)
        /\ CallsOf(Out.calls, last.g) = CallsOf(last.nested.calls, last.g)
        /\ CallsOf(Out.calls, last.f) = CallsOf(last.nested.calls, last.f)

\* andThen(f).andThen(g) on an Ok where f answered an Err, so that g was not
\* invoked, while g applied to that payload would have changed it
C11_Witness ==
    /\ last.op = "andThen.andThen"
    /\ SelfIsOk /\ Self.value \in Nums
    /\ last.f = <<"Err">> /\ last.g = <<"inc", "Ok">>
    /\ Out.calls = <<Invocation(last.f, Self.value)>>
    /\ last.nested.calls = <<Invocation(Bind(last.f, last.g), Self.value),
                              Invocation(last.f, Self.value)>>
    /\ RetObj(Out) = ErrImpl(Self.value)

\* andThen(f).andThen(g) on an Ok where both callbacks ran
C11_WitnessBoth ==
    /\ last.op = "andThen.andThen"
    /\ SelfIsOk /\ Self.value \in Nums
    /\ Len(CallsOf(Out.calls, last.g)) = 1 /\ last.f # last.g
    /\ RetObj(Out).tag = "Err"

\* C12: on an Err(e), orElse, unwrapOrElse and mapOrElse invoke their
\* failure-side callback exactly once, with e, and answer what it returned; on
\* an Ok(v) they never invoke it: orElse answers the receiver itself,
\* unwrapOrElse answers v and mapOrElse answers mapper(v).
C12_FailureCallbacksLazy ==
    /\ (last.op = "orElse" /\ SelfIsErr) =>
          LET r == CallResultFn(Pre, last.fn, Self.error)
          IN  /\ Out.calls = <<Invocation(last.fn, Self.error)>>
              /\ r.kind = "return" =>
                    (Out.raised = NoRaise /\ Out.ret = RetRef(r.ref) /\ Out.heap = r.heap)
    /\ (last.op = "orElse" /\ SelfIsOk) =>
          (Out.calls = <<>> /\ Out.raised = NoRaise /\ Out.ret = RetRef(last.self)
           /\ HeapUntouched)
    /\ (last.op = "unwrapOrElse" /\ SelfIsErr) =>
          LET r == CallMapper(last.fn, Self.error)
          IN  /\ Out.calls = <<Invocation(last.fn, Self.error)>>
              /\ r.kind = "return" => (Out.raised = NoRaise /\ Out.ret = RetVal(r.v))
    /\ (last.op = "unwrapOrElse" /\ SelfIsOk) =>
          (Out.calls = <<>> /\ Out.raised = NoRaise /\ Out.ret = RetVal(Self.value))
    /\ (last.op = "mapOrElse" /\ SelfIsErr) =>
          LET r == CallMapper(last.dfn, Self.error)
          IN  /\ Out.calls = <<Invocation(last.dfn, Self.error)>>
              /\ r.kind = "return" => (Out.raised = NoRaise /\ Out.ret = RetVal(r.v))
    /\ (last.op = "mapOrElse" /\ SelfIsOk) =>
          LET r == CallMapper(last.fn, Self.value)
          IN  /\ Out.calls = <<Invocation(last.fn, Self.value)>>
              /\ r.kind = "return" => (Out.raised = NoRaise /\ Out.ret = RetVal(r.v))

\* orElse() on an Ok, handed a callback that would have thrown, answered the
\* receiver
C12_Witness ==
    /\ last.op = "orElse"
    /\ SelfIsOk
    /\ Throws(last.fn)
    /\ Out.ret = RetRef(last.self) /\ Out.raised = NoRaise

\* mapOrElse() on an Err answered what the failure-side callback made of the
\* error, the mapper being one that would have thrown
C12_WitnessErr ==
    /\ last.op = "mapOrElse"
    /\ SelfIsErr /\ Self.error = Num(0)
    /\ last.dfn = <<"inc">> /\ Throws(last.fn)
    /\ Out.ret = RetVal(Num(1))

\* container r of heap h answers true to exactly one of isOk() and isErr()
OneVariant(h, r) == isOk(h, r).ret.b # isErr(h, r).ret.b

\* container r answers isOk() and isErr() in heap h2 as it did in heap h1
SameAnswers(h1, h2, r) ==
    /\ isOk(h2, r).ret = isOk(h1, r).ret
    /\ isErr(h2, r).ret = isErr(h1, r).ret

\* C13: every container answers true to exactly one of isOk() and isErr(),
\* before and after every call and for the containers a call made, and a
\* container answers after a call, and once its outcome is dropped, what it
\* answered before the call.
C13_OneVariantForLife ==
    /\ \A r \in Refs : OneVariant(heap, r)
    /\ last # NoCall =>
          /\ \A r \in 1 .. Len(Pre) : OneVariant(Pre, r)
          /\ \A r \in 1 .. Len(Out.heap) : OneVariant(Out.heap, r)
          /\ Len(Out.heap) >= Len(Pre) /\ Len(heap) = Len(Pre)
          /\ \A r \in 1 .. Len(Pre) : SameAnswers(Pre, Out.heap, r) /\ SameAnswers(Pre, heap, r)
          /\ last.op = "isOk" => Out.ret = RetBool(SelfIsOk)
          /\ last.op = "isErr" => Out.ret = RetBool(SelfIsErr)

\* mapErr() ran its callback on an Err the client had built, next to an Ok in
\* the heap, and made a new container
C13_Witness ==
    /\ last.op = "mapErr"
    /\ SelfIsErr /\ last.self > 2
    /\ Len(Out.heap) > Len(Pre)
    /\ \E r \in Refs : r > 2 /\ IsOkObj(heap, r)
    /\ isErr(Out.heap, last.self).ret = RetBool(TRUE)

\* isErr() was asked of an Ok
C13_WitnessAsked ==
    /\ last.op = "isErr"
    /\ SelfIsOk
    /\ Out.ret = RetBool(FALSE)

\* C14: Ok(v).toOption().toResult(e) is an Ok holding v, whatever e is;
\* Err(e).toOption() is None, the error dropped, and None.toResult(e2) is an
\* Err holding e2.
C14_OptionRoundTrip ==
    /\ (last.op = "toOption.toResult" /\ SelfIsOk) =>
          /\ last.first.ret = RetOption(Some(Self.value))
          /\ Out.raised = NoRaise /\ Out.ret.k = "ref"
          /\ RetObj(Out) = OkImpl(Self.value)
    /\ (last.op = "toOption.toResult" /\ SelfIsErr) =>
          /\ last.first.ret = RetOption(None)
          /\ Out.raised = NoRaise /\ Out.ret.k = "ref"
          /\ RetObj(Out) = ErrImpl(last.error)
    /\ (last.op = "toOption" /\ SelfIsErr) => Out.ret = RetOption(None)
    /\ (last.op = "toOption" /\ SelfIsOk) => Out.ret = RetOption(Some(Self.value))

\* toOption().toResult(e2) on an Err whose error is not e2
C14_Witness ==
    /\ last.op = "toOption.toResult"
    /\ SelfIsErr /\ Self.error \in Nums /\ Self.error # last.error
    /\ RetObj(Out).tag = "Err"

\* toOption().toResult(e) on an Ok whose payload is not e
C14_WitnessOk ==
    /\ last.op = "toOption.toResult"
    /\ SelfIsOk /\ Self.value \in Nums /\ Self.value # last.error
    /\ RetObj(Out).tag = "Ok"

\* C15: wrap(fn) invokes fn exactly once, without argument, before it returns;
\* it never raises; it returns a new Ok holding what fn returned, or a new Err
\* holding the very value fn threw.
C15_WrapCatches ==
    last.op = "wrap" =>
        LET r == CallMapper(last.fn, Undefined)
        IN  /\ Out.calls = <<Invocation(last.fn, Undefined)>>
            /\ Out.raised = NoRaise
            /\ RetIsFresh
            /\ r.kind = "return" => RetObj(Out) = OkImpl(r.v)
            /\ r.kind = "throw" => RetObj(Out) = ErrImpl(r.v)

\* wrap() of a callback that threw after it had computed a value
C15_Witness ==
    /\ last.op = "wrap"
    /\ last.fn = <<"zero", "boom">>
    /\ RetObj(Out) = ErrImpl(TheThrown)

\* wrap() of a callback that returned a number
C15_WitnessOk ==
    /\ last.op = "wrap"
    /\ RetObj(Out) = OkImpl(Num(1))

\* C17: iterating an Ok(v) yields one item, v itself and whole even when v
\* is an array, and then is done; iterating an Err yields nothing; every
\* request for an iterator makes a new iterator, so that iterating the same
\* container again yields the same items.
C17_IterationYieldsPayloadOnce ==
    /\ (last.op = "Array.from" /\ SelfIsOk) =>
          /\ Out.ret = RetVal(Arr(<<Self.value>>))
          /\ last.again = Arr(<<Self.value>>)
    /\ (last.op = "Array.from" /\ SelfIsErr) =>
          /\ Out.ret = RetVal(Arr(<<>>))
          /\ last.again = Arr(<<>>)
    /\ last.op = "Array.from" =>
          /\ Len(last.iterators) = 2
          /\ \A id \in 1 .. 2 : IteratorNext(last.iterators, id).done
          /\ HeapUntouched
    /\ last.op = "Array.from(Ok)" =>
          /\ Out.ret = RetVal(Arr(<<last.payload>>))
          /\ IteratorNext(last.iterators, 1).done

\* Array.from() of an Ok holding an array of three elements
C17_Witness ==
    /\ last.op = "Array.from(Ok)"
    /\ Len(last.payload.items) = 3
    /\ Len(Out.ret.v.items) = 1

\* Array.from() of an Err holding a number, and of an Ok holding a number
C17_WitnessErr ==
    /\ last.op = "Array.from"
    /\ SelfIsErr /\ Self.error \in Nums
    /\ Out.ret.v.items = <<>>

C17_WitnessOk ==
    /\ last.op = "Array.from"
    /\ SelfIsOk /\ Self.value = Num(1)
    /\ last.again.items = <<Num(1)>>

\* ------------------------------------------------------- the async client
(***************************************************************************)
(* The client's code runs to completion before any queued job runs, and    *)
(* the queue is run empty before anything else happens: the client acts    *)
(* only while the queue is not being run, and an outside party settles a   *)
(* promise only when the queue is empty.  asyncs[i].made records how the   *)
(* client got handle i.                                                    *)
(***************************************************************************)
Handles == 1 .. Len(asyncs)
Wrappers == {i \in Handles : asyncs[i].made.op \notin {"wrapAsync", "toOption", "await"}}

AsyncShapes == {"plain", "promise", "async", "pending"}
ValueShapes == {"plain", "promise", "pending"}
AsyncResultFns == {Callback(fn, shape) : fn \in {<<"inc", "Ok">>, <<"Err.EMPTY">>, <<"boom">>},
                                         shape \in AsyncShapes}
AsyncMappers == {Callback(fn, shape) : fn \in {<<"inc">>, <<"boom">>}, shape \in ValueShapes}
\* op of wrapAsync returns a promise, or throws before it made one
WrapAsyncFns == {Callback(fn, shape) : fn \in {<<"zero", "inc">>, <<"boom">>},
                                       shape \in {"promise", "pending"}}
                \cup {Callback(<<"boom">>, "plain")}
\* what the client can hand to or(): a container, the promise of a wrapper
\* it holds, or such a wrapper
Others == {ResultVal(ErrEMPTY), ResultVal(OkEMPTY)}
          \cup {PromiseVal(asyncs[j].promise) : j \in Wrappers}
          \cup {AsyncResultVal(asyncs[j].promise) : j \in Wrappers}

\* the client takes the world and the promise o = [w, p] a call answered,
\* and notes how it got it
Take(o, made) ==
    /\ ~draining
    /\ Len(asyncs) < MaxAsync
    /\ heap' = o.w.heap /\ proms' = o.w.proms /\ jobs' = o.w.jobs
    /\ trace' = o.w.trace /\ rets' = o.w.rets
    /\ asyncs' = Append(asyncs, [promise |-> o.p, made |-> made])
    /\ UNCHANGED <<last, draining, rx>>

ClientWrapAsync(op) ==
    Take(Result_wrapAsync(World, op, Len(asyncs) + 1), [op |-> "wrapAsync", cb |-> op])

\* Ok(v).toAsyncResult() / Err(v).toAsyncResult()
ClientToAsyncResult(obj) ==
    LET n == New(heap, obj)
    IN  Take(toAsyncResult([World EXCEPT !.heap = n.heap], n.ref),
             [op |-> "toAsyncResult", start |-> n.ref])

\* what an outside party rejects a promise with: not what a callback throws
TheReason == Str("down")

\* new AsyncResult(promise) of a promise that is settled later: fulfilled
\* with a new container obj, or rejected when obj is no container
ClientNewOfPromise(obj) ==
    LET n == New(heap, obj)
        q == IF obj = Undefined
             THEN NewPromise(World, <<[state |-> "rejected", value |-> TheReason]>>)
             ELSE NewPromise([World EXCEPT !.heap = n.heap],
                             <<[state |-> "fulfilled", value |-> ResultVal(n.ref)]>>)
    IN  Take(AsyncResult_constructor(q.w, PromiseVal(q.p)),
             [op |-> "new", start |-> PromiseVal(q.p)])

ClientAndThen(i, cb) ==
    Take(AsyncResult_andThen(World, asyncs[i].promise, cb, Len(asyncs) + 1),
         [op |-> "andThen", from |-> i, cb |-> cb])

ClientMap(i, cb) ==
    Take(AsyncResult_map(World, asyncs[i].promise, cb, Len(asyncs) + 1),
         [op |-> "map", from |-> i, cb |-> cb])

ClientMapErr(i, cb) ==
    Take(AsyncResult_mapErr(World, asyncs[i].promise, cb, Len(asyncs) + 1),
         [op |-> "mapErr", from |-> i, cb |-> cb])

ClientOrElse(i, cb) ==
    Take(AsyncResult_orElse(World, asyncs[i].promise, cb, Len(asyncs) + 1),
         [op |-> "orElse", from |-> i, cb |-> cb])

ClientOr(i, other) ==
    Take(AsyncResult_or(World, asyncs[i].promise, other, Len(asyncs) + 1),
         [op |-> "or", from |-> i, cb |-> ConstFn(other)])

ClientToOption(i) ==
    Take(AsyncResult_toOption(World, asyncs[i].promise), [op |-> "toOption", from |-> i])

\* `await ar` (via "then") or `await ar.promise` (via "promise") in an async
\* function of the client that returns what the await delivered: the handle
\* is the promise of that function
ClientAwait(i, via) ==
    LET n == NewPromise(World, <<>>)
        awaited == IF via = "then" THEN AsyncResultVal(asyncs[i].promise)
                   ELSE PromiseVal(asyncs[i].promise)
    IN  Take([w |-> Await(n.w, awaited, [h |-> "awaited", fn |-> n.p]), p |-> n.p],
             [op |-> "await", from |-> i, via |-> via])

\* the platform runs the next queued job
Microtask ==
    LET Land(w) ==
            /\ heap' = w.heap /\ proms' = w.proms /\ jobs' = w.jobs
            /\ trace' = w.trace /\ rets' = w.rets
            /\ draining' = (w.jobs # <<>>)
    IN  /\ jobs # <<>>
        /\ Land(RunJob(World))
        /\ UNCHANGED <<last, asyncs, rx>>

\* an outside party settles promise p
SettleExternal(p) ==
    /\ jobs = <<>>
    /\ proms[p].state = "pending" /\ proms[p].ext # <<>>
    /\ LET w == SettlePromise(World, p, proms[p].ext[1].state, proms[p].ext[1].value)
       IN  /\ proms' = w.proms /\ jobs' = w.jobs
    /\ UNCHANGED <<heap, last, draining, asyncs, trace, rets, rx>>

NextAsync ==
    \/ ~draining /\ \E v \in Nums : ClientToAsyncResult(OkImpl(v))
    \/ ~draining /\ \E v \in Nums : ClientToAsyncResult(ErrImpl(v))
    \/ ~draining /\ \E obj \in {OkImpl(Num(0)), ErrImpl(Num(0)), Undefined} :
                       ClientNewOfPromise(obj)
    \/ ~draining /\ \E i \in Wrappers, cb \in AsyncResultFns : ClientAndThen(i, cb)
    \/ ~draining /\ \E i \in Wrappers, cb \in AsyncMappers : ClientMap(i, cb)
    \/ ~draining /\ \E i \in Wrappers, cb \in AsyncMappers : ClientMapErr(i, cb)
    \/ ~draining /\ \E i \in Wrappers, cb \in AsyncResultFns \cup {ConstFn(o) : o \in Others} :
                       ClientOrElse(i, cb)
    \/ ~draining /\ \E i \in Wrappers, other \in Others : ClientOr(i, other)
    \/ ~draining /\ \E i \in Wrappers : ClientToOption(i)
    \/ ~draining /\ \E i \in Wrappers, via \in {"then", "promise"} : ClientAwait(i, via)
    \/ Microtask
    \/ \E p \in 1 .. Len(proms) : SettleExternal(p)

SpecAsync == Init /\ [][NextAsync]_vars

\* the client of wrapAsync alone
NextWrapAsync ==
    \/ ~draining /\ \E op \in WrapAsyncFns : ClientWrapAsync(op)
    \/ Microtask
    \/ \E p \in 1 .. Len(proms) : SettleExternal(p)

SpecWrapAsync == Init /\ [][NextWrapAsync]_vars

\* ------------------------------------------------------------- async claims
\* the promise of handle i
PromiseOf(i) == proms[asyncs[i].promise]

\* handle i has settled to a container
Fulfilled(i) == PromiseOf(i).state = "fulfilled"
\* the container handle i has settled to
Settled(i) == heap[PromiseOf(i).value.ref]

\* the invocations made on behalf of handle i
TraceOf(i) == SelectSeq(trace, LAMBDA c : c.who = i)

\* no job is queued and no outside party has a promise left to settle
Quiet == jobs = <<>> /\ \A p \in 1 .. Len(proms) :
                            ~(proms[p].state = "pending" /\ proms[p].ext # <<>>)

\* C16: the promise of wrapAsync(fn) never rejects and fn is invoked once,
\* within the call; once fn's promise has settled and the queued jobs have run
\* it is fulfilled, with an Ok holding the value fn's promise was fulfilled
\* with, or with an Err holding what fn's promise was rejected with or what fn
\* threw before it made a promise.
C16_WrapAsyncNeverRejects ==
    \A i \in Handles : asyncs[i].made.op = "wrapAsync" =>
        LET r == CallMapper(asyncs[i].made.cb.fn, Undefined)
        IN  /\ PromiseOf(i).state # "rejected"
            /\ TraceOf(i) = <<[who |-> i, fn |-> asyncs[i].made.cb, arg |-> Undefined]>>
            /\ Quiet => Fulfilled(i)
            /\ Fulfilled(i) =>
                  /\ PromiseOf(i).value.t = "result"
                  /\ Settled(i) = IF r.kind = "return" THEN OkImpl(r.v) ELSE ErrImpl(r.v)

\* wrapAsync() of a callback whose promise was rejected later has settled to
\* an Err, next to one of a callback that threw before it made a promise
C16_Witness ==
    \E i, j \in Handles :
        /\ asyncs[i].made = [op |-> "wrapAsync", cb |-> Callback(<<"boom">>, "pending")]
        /\ Fulfilled(i) /\ Settled(i) = ErrImpl(TheThrown)
        /\ asyncs[j].made = [op |-> "wrapAsync", cb |-> Callback(<<"boom">>, "plain")]
        /\ Fulfilled(j) /\ Settled(j) = ErrImpl(TheThrown)

\* wrapAsync() of an async function that returned a number
C16_WitnessOk ==
    \E i \in Handles :
        /\ asyncs[i].made = [op |-> "wrapAsync", cb |-> Callback(<<"zero", "inc">>, "promise")]
        /\ Fulfilled(i) /\ Settled(i) = OkImpl(Num(1))

\* the containers handed to the call in `last`
InputRefs ==
    CASE last.op \in {"all", "any", "partition", "all.any.partition"} ->
             {last.results[i] : i \in 1 .. Len(last.results)}
      [] last.op = "allRecord" -> {last.entries[i][2] : i \in 1 .. Len(last.entries)}
      [] last.op = "or" -> {last.self, last.other}
      [] last.op \in {"wrap", "Array.from(Ok)"} -> {}
      [] OTHER -> {last.self}

\* the call in `last` is an andThen()/orElse() that invoked its callback and
\* answered the very container the callback returned.  Nothing is allocated
\* after the last callback has returned, so the heap it was called on is the
\* heap of the outcome without what it allocated itself; the callback is
\* followed again from there.
RetIsCallbacks ==
    /\ last.op \in {"andThen", "orElse", "andThen.andThen"}
    /\ Out.ret.k = "ref"
    /\ Out.calls # <<>>
    /\ LET c == Out.calls[Len(Out.calls)]
           made == Len(CallResultFn(Pre, c.fn, c.arg).heap) - Len(Pre)
           Returned(r) == r.kind = "return" /\ r.heap = Out.heap /\ r.ref = Out.ret.id
       IN  /\ made <= Len(Out.heap) - Len(Pre)
           /\ Returned(CallResultFn(SubSeq(Out.heap, 1, Len(Out.heap) - made), c.fn, c.arg))

\* C18 as stated: no call changes the variant or the payload of a container
\* that was there before it, and a container it returns is a new one or one
\* of those it was handed (its receiver, its argument, an element).
C18_NewOrHandedOnly ==
    last.op # "none" =>
        /\ Len(Out.heap) >= Len(Pre)
        /\ \A r \in 1 .. Len(Pre) : Out.heap[r] = Pre[r] /\ heap[r] = Pre[r]
        /\ Out.ret.k = "ref" =>
              \/ Out.ret.id \in Len(Pre) + 1 .. Len(Out.heap)
              \/ Out.ret.id \in InputRefs

\* C18, amended: no call changes the variant or the payload of a container
\* that was there before it, its receiver and the containers handed to it
\* included, whether it returns or raises; a container it returns is a new
\* one, one of those it was handed, or, for andThen() and orElse() that
\* invoked their callback, the very container the callback returned, which
\* may be one that existed before the call.
C18_ContainersImmutable ==
    last.op # "none" =>
        /\ Len(Out.heap) >= Len(Pre)
        /\ \A r \in 1 .. Len(Pre) : Out.heap[r] = Pre[r] /\ heap[r] = Pre[r]
        /\ Out.ret.k = "ref" =>
              \/ Out.ret.id \in Len(Pre) + 1 .. Len(Out.heap)
              \/ Out.ret.id \in InputRefs
              \/ RetIsCallbacks

\* andThen(() => Err.EMPTY) on an Ok the client built answered Err.EMPTY:
\* neither a new container nor the receiver, and nothing was changed
C18_WitnessCallback ==
    /\ last.op = "andThen" /\ last.fn = <<"Err.EMPTY">>
    /\ SelfIsOk /\ last.self > 2
    /\ Out.ret = RetRef(ErrEMPTY)
    /\ Out.heap = Pre
    /\ Out.ret.id \notin InputRefs

\* map() on an Ok the client built answered a new Ok with another payload and
\* left the receiver as it was
C18_Witness ==
    /\ last.op = "map"
    /\ SelfIsOk /\ last.self > 2
    /\ Out.ret.k = "ref" /\ Out.ret.id > Len(Pre)
    /\ RetObj(Out).value # Self.value
    /\ Out.heap[last.self] = Self

\* toAsyncResult() on an Err answered a wrapper settled to the receiver
C18_WitnessAsync ==
    /\ last.op = "toAsyncResult"
    /\ SelfIsErr
    /\ Out.ret.promise.state = "fulfilled" /\ Out.ret.promise.value = ResultVal(last.self)

\* partition() of an array holding both variants
C18_WitnessPartition ==
    /\ last.op = "partition"
    /\ \E i, j \in 1 .. Len(last.results) : IsOkAt(i) /\ IsErrAt(j)

\* the handles the client derived from another with a combinator
Derived == {i \in Handles : asyncs[i].made.op \in {"andThen", "map", "mapErr", "orElse", "or"}}
\* the wrapper handle i was derived from
Parent(i) == asyncs[i].made.from
\* the combinator of handle i uses its callback on the variant its parent
\* settled to
Applies(i) ==
    IF asyncs[i].made.op \in {"andThen", "map"} THEN Settled(Parent(i)).tag = "Ok"
    ELSE Settled(Parent(i)).tag = "Err"
\* the payload of the container the parent of handle i settled to
ParentPayload(i) ==
    IF Settled(Parent(i)).tag = "Ok" THEN Settled(Parent(i)).value ELSE Settled(Parent(i)).error

\* C19: a callback handed to andThen or map is invoked only once the wrapper
\* has settled, and only if it settled to an Ok; one handed to mapErr or
\* orElse, and the argument of or, only if it settled to an Err; it is then
\* invoked once, with the payload, and has been invoked by the time the queued
\* jobs have run.  When the wrapper settled to the other variant the callback
\* is never invoked and the new wrapper settles, without rejecting, to the
\* very container the wrapper settled to.
C19_AsyncPassThrough ==
    \A i \in Derived :
        /\ TraceOf(i) # <<>> =>
              /\ Fulfilled(Parent(i)) /\ Applies(i)
              /\ TraceOf(i) = <<[who |-> i, fn |-> asyncs[i].made.cb, arg |-> ParentPayload(i)]>>
        /\ (Fulfilled(Parent(i)) /\ Applies(i) /\ Quiet) => TraceOf(i) # <<>>
        /\ (Fulfilled(Parent(i)) /\ ~Applies(i)) =>
              /\ TraceOf(i) = <<>>
              /\ PromiseOf(i).state # "rejected"
              /\ Fulfilled(i) => PromiseOf(i).value = PromiseOf(Parent(i)).value
              /\ Quiet => Fulfilled(i)

\* andThen() with a callback that would have thrown, on a wrapper that
\* settled to an Err after the call, has settled to that Err
C19_Witness ==
    \E i \in Derived :
        /\ asyncs[i].made.op = "andThen" /\ Throws(asyncs[i].made.cb.fn)
        /\ asyncs[Parent(i)].made.op = "new"
        /\ Fulfilled(Parent(i)) /\ Settled(Parent(i)).tag = "Err"
        /\ Fulfilled(i) /\ PromiseOf(i).value = PromiseOf(Parent(i)).value

\* or() and mapErr() on a wrapper that settled to an Ok have settled to it
C19_WitnessOk ==
    \E i, j \in Derived :
        /\ asyncs[i].made.op = "or" /\ asyncs[j].made.op = "mapErr"
        /\ Parent(i) = Parent(j)
        /\ Fulfilled(Parent(i)) /\ Settled(Parent(i)).tag = "Ok"
        /\ Fulfilled(i) /\ Fulfilled(j)

\* map() and orElse() have invoked their callbacks
C19_WitnessInvoked ==
    \E i, j \in Derived :
        /\ asyncs[i].made.op = "map" /\ asyncs[j].made.op = "orElse"
        /\ Len(TraceOf(i)) = 1 /\ Len(TraceOf(j)) = 1

\* the container the callback of handle i makes of the payload its parent
\* settled to, whatever the shape it hands it over in
Supplied(i) ==
    LET cb == asyncs[i].made.cb
        r == CallResultFn(heap, cb.fn, ParentPayload(i))
    IN  r.heap[r.ref]

\* handle i was derived with andThen or orElse and a callback of its own
\* that does not throw, and its parent settled to the variant it applies to
CallbackApplied(i) ==
    /\ asyncs[i].made.op \in {"andThen", "orElse"}
    /\ asyncs[i].made.cb.shape \in AsyncShapes /\ ~Throws(asyncs[i].made.cb.fn)
    /\ Fulfilled(Parent(i)) /\ Applies(i)

\* handle i was derived with or(other), or with orElse(() => other), from a
\* wrapper that settled to an Err
OtherApplied(i) ==
    /\ asyncs[i].made.op \in {"or", "orElse"}
    /\ asyncs[i].made.cb.shape = "const"
    /\ Fulfilled(Parent(i)) /\ Applies(i)

\* what `other` stands for once it has settled: the settlement of its
\* promise, or itself when it is a container
OtherState(other) == IF other.t = "result" THEN "fulfilled"
                     ELSE proms[IF other.t = "promise" THEN other.id ELSE other.promise].state
OtherValue(other) == IF other.t = "result" THEN other
                     ELSE proms[IF other.t = "promise" THEN other.id ELSE other.promise].value

\* C20: andThen on a wrapper that settled to an Ok, and orElse on one that
\* settled to an Err, settle to the container the callback supplied, be it
\* handed over as a plain container, as a promise of it or as an AsyncResult,
\* settled or not when it is handed over; or(other) on a wrapper that
\* settled to an Err settles to the container other is or settles to; and
\* or(other) settles as orElse(() => other) on the same wrapper does.
C20_AsyncShapeIndependent ==
    /\ \A i \in Derived : CallbackApplied(i) =>
          /\ PromiseOf(i).state # "rejected"
          /\ Quiet => Fulfilled(i)
          /\ Fulfilled(i) =>
                /\ PromiseOf(i).value.t = "result"
                /\ Settled(i) = Supplied(i)
                /\ asyncs[i].made.cb.fn = <<"Err.EMPTY">> =>
                      PromiseOf(i).value = ResultVal(ErrEMPTY)
    /\ \A i \in Derived : OtherApplied(i) =>
          LET other == asyncs[i].made.cb.other
          IN  /\ PromiseOf(i).state # "pending" =>
                    /\ PromiseOf(i).state = OtherState(other)
                    /\ PromiseOf(i).value = OtherValue(other)
              /\ (Quiet /\ OtherState(other) # "pending") => PromiseOf(i).state # "pending"
    /\ \A i, j \in Derived :
          (/\ asyncs[i].made.op = "or" /\ asyncs[j].made.op = "orElse"
           /\ Parent(i) = Parent(j) /\ asyncs[i].made.cb = asyncs[j].made.cb
           /\ Quiet) =>
              /\ PromiseOf(i).state = PromiseOf(j).state
              /\ PromiseOf(i).value = PromiseOf(j).value
              /\ Len(TraceOf(i)) = Len(TraceOf(j))

\* andThen() on a wrapper that settled to an Ok, with a callback handing an
\* Ok over in a promise settled later, has settled to that Ok
C20_Witness ==
    \E i \in Derived :
        /\ asyncs[i].made.op = "andThen"
        /\ asyncs[i].made.cb = Callback(<<"inc", "Ok">>, "pending")
        /\ CallbackApplied(i) /\ Fulfilled(i)
        /\ Settled(i) = OkImpl(Num(1))

\* or(other) and orElse(() => other), other being a wrapper, on the same
\* wrapper that settled to an Err, have both settled
C20_WitnessOr ==
    \E i, j \in Derived :
        /\ asyncs[i].made.op = "or" /\ asyncs[j].made.op = "orElse"
        /\ Parent(i) = Parent(j) /\ asyncs[i].made.cb = asyncs[j].made.cb
        /\ asyncs[i].made.cb.other.t = "asyncresult"
        /\ OtherApplied(i) /\ Fulfilled(i) /\ Fulfilled(j)

\* orElse() with a callback handing its container over as an AsyncResult
C20_WitnessOrElse ==
    \E i \in Derived :
        /\ asyncs[i].made.op = "orElse"
        /\ asyncs[i].made.cb = Callback(<<"inc", "Ok">>, "async")
        /\ CallbackApplied(i) /\ Fulfilled(i)

\* the value the mapper of handle i makes of the payload its parent settled to
Mapped(i) == CallMapper(asyncs[i].made.cb.fn, ParentPayload(i)).v

\* handle i was derived with map or mapErr and a mapper that does not throw,
\* and its parent settled to the variant it applies to
MapperApplied(i) ==
    /\ asyncs[i].made.op \in {"map", "mapErr"}
    /\ ~Throws(asyncs[i].made.cb.fn)
    /\ Fulfilled(Parent(i)) /\ Applies(i)

\* C21: map(fn) on a wrapper that settled to Ok(v) settles, without
\* rejecting, to a new Ok(u), and mapErr(fn) on one that settled to Err(e) to
\* a new Err(u), u being the value fn returned or the value the promise fn
\* returned was fulfilled with: the payload is a plain value, never a promise.
C21_AsyncMapNormalises ==
    \A i \in Derived : MapperApplied(i) =>
        /\ PromiseOf(i).state # "rejected"
        /\ Quiet => Fulfilled(i)
        /\ Fulfilled(i) =>
              /\ PromiseOf(i).value.t = "result"
              /\ PromiseOf(i).value # PromiseOf(Parent(i)).value
              /\ Mapped(i).t # "promise"
              /\ Settled(i) = IF asyncs[i].made.op = "map" THEN OkImpl(Mapped(i))
                              ELSE ErrImpl(Mapped(i))

\* map() with a mapper whose promise was fulfilled later has settled to an Ok
\* of the value it was fulfilled with
C21_Witness ==
    \E i \in Derived :
        /\ asyncs[i].made.op = "map"
        /\ asyncs[i].made.cb = Callback(<<"inc">>, "pending")
        /\ MapperApplied(i) /\ Fulfilled(i)
        /\ Settled(i) = OkImpl(Num(1))

\* mapErr() with an async mapper has settled to an Err of the mapped payload
C21_WitnessErr ==
    \E i \in Derived :
        /\ asyncs[i].made.op = "mapErr"
        /\ asyncs[i].made.cb = Callback(<<"inc">>, "promise")
        /\ MapperApplied(i) /\ Fulfilled(i)
        /\ Settled(i) = ErrImpl(Num(1))

\* handle i was derived with a callback that throws when it is called, and
\* its parent settled to the variant the callback is used on
ThrowerApplied(i) ==
    /\ asyncs[i].made.cb.shape = "plain" /\ Throws(asyncs[i].made.cb.fn)
    /\ Fulfilled(Parent(i)) /\ Applies(i)

\* C22: a callback of andThen, map, mapErr or orElse that throws when it is
\* called is called by a promise job, after the combinator has answered the
\* new wrapper; that wrapper never settles to a container: it is rejected with
\* the very value thrown, by the time the queued jobs have run.
C22_SyncThrowRejects ==
    \A i \in Derived : ThrowerApplied(i) =>
        /\ PromiseOf(i).state # "fulfilled"
        /\ PromiseOf(i).state = "rejected" =>
              /\ PromiseOf(i).value = TheThrown
              /\ Len(TraceOf(i)) = 1
        /\ Quiet => PromiseOf(i).state = "rejected"

\* andThen() and map() with callbacks that throw, on a wrapper that settled
\* to an Ok, have been rejected with what was thrown
C22_Witness ==
    \E i, j \in Derived :
        /\ asyncs[i].made.op = "andThen" /\ asyncs[j].made.op = "map"
        /\ ThrowerApplied(i) /\ ThrowerApplied(j)
        /\ PromiseOf(i).state = "rejected" /\ PromiseOf(i).value = TheThrown
        /\ PromiseOf(j).state = "rejected" /\ PromiseOf(j).value = TheThrown

\* mapErr() and orElse() with callbacks that throw, on a wrapper that settled
\* to an Err, have been rejected
C22_WitnessErr ==
    \E i, j \in Derived :
        /\ asyncs[i].made.op = "mapErr" /\ asyncs[j].made.op = "orElse"
        /\ ThrowerApplied(i) /\ ThrowerApplied(j)
        /\ PromiseOf(i).state = "rejected" /\ PromiseOf(j).state = "rejected"

\* the place in trace of the invocation made for handle i
Pos(i) == CHOOSE k \in 1 .. Len(trace) : trace[k].who = i

\* the promise a returned value stands for is settled; a value that is no
\* promise has nothing to wait for
HasSettled(x) ==
    CASE x.t = "promise" -> proms[x.id].state # "pending"
      [] x.t = "asyncresult" -> proms[x.promise].state # "pending"
      [] OTHER -> TRUE

\* handle j is a link of a chain: it was derived from a derived handle
Links == {j \in Derived : Parent(j) \in Derived}

\* C23: in a chain w.c1(f1).c2(f2), once f2 has been invoked, the wrapper it
\* was attached to has settled to a container; if f1 was invoked at all, it
\* was invoked before f2, it had returned, and the promise or AsyncResult it
\* returned has settled.  As a promise never leaves a settled state, this
\* holding in every state says f2 was not invoked before.
C23_ChainInOrder ==
    \A j \in Links : TraceOf(j) # <<>> =>
        /\ Fulfilled(Parent(j))
        /\ TraceOf(Parent(j)) # <<>> =>
              /\ Pos(Parent(j)) < Pos(j)
              /\ rets[Pos(Parent(j))].kind = "return"
              /\ HasSettled(rets[Pos(Parent(j))].x)

\* andThen(f1).map(f2) on a wrapper: f1 returned a promise that was settled
\* later, and f2 has been invoked after that
C23_Witness ==
    \E j \in Links :
        /\ asyncs[j].made.op = "map" /\ asyncs[Parent(j)].made.op = "andThen"
        /\ asyncs[Parent(j)].made.cb.shape = "pending"
        /\ TraceOf(j) # <<>> /\ TraceOf(Parent(j)) # <<>>
        /\ Pos(Parent(j)) < Pos(j)

\* map(f1).andThen(f2) with f1 handing its value over in a promise
C23_WitnessMap ==
    \E j \in Links :
        /\ asyncs[j].made.op = "andThen" /\ asyncs[Parent(j)].made.op = "map"
        /\ asyncs[Parent(j)].made.cb.shape \in {"promise", "pending"}
        /\ TraceOf(j) # <<>> /\ TraceOf(Parent(j)) # <<>>

\* f1 was not invoked, the wrapper having settled to an Err, and orElse(f2)
\* was
C23_WitnessSkipped ==
    \E j \in Links :
        /\ asyncs[j].made.op = "orElse" /\ asyncs[Parent(j)].made.op = "andThen"
        /\ TraceOf(j) # <<>> /\ TraceOf(Parent(j)) = <<>>

\* the handles the client got from a combinator, toOption() included
Chained == {i \in Handles : asyncs[i].made.op \in
                {"andThen", "map", "mapErr", "orElse", "or", "toOption"}}

\* the client's step is the call of a combinator
CombinatorCall ==
    /\ Len(asyncs') = Len(asyncs) + 1
    /\ asyncs'[Len(asyncs')].made.op \in
           {"andThen", "map", "mapErr", "orElse", "or", "toOption"}

\* C24: the call of a combinator on a wrapper is one step of the client: it
\* invokes no callback, runs no queued job and builds no container, and it
\* answers a new wrapper whose promise is a new, pending one, not the
\* receiver's, also when the receiver has settled already; and a callback
\* is invoked only once the receiver has settled to a container.
C24_CombinatorsReturnAtOnce ==
    /\ [](\A i \in Derived : TraceOf(i) # <<>> => Fulfilled(Parent(i)))
    /\ [][CombinatorCall =>
            LET new == asyncs'[Len(asyncs')]
            IN  /\ trace' = trace /\ rets' = rets /\ heap' = heap
                /\ SubSeq(jobs', 1, Len(jobs)) = jobs
                /\ new.promise > Len(proms)
                /\ new.promise # asyncs[new.made.from].promise
                /\ proms'[new.promise].state = "pending"
                /\ \A p \in 1 .. Len(proms) :
                       /\ proms'[p].state = proms[p].state
                       /\ proms'[p].value = proms[p].value]_vars

\* andThen() has been called on a wrapper toAsyncResult() built, settled
\* already: the new wrapper is pending, its callback waits in a queued job
C24_Witness ==
    \E i \in Derived :
        /\ asyncs[i].made.op = "andThen"
        /\ asyncs[Parent(i)].made.op = "toAsyncResult"
        /\ Fulfilled(Parent(i)) /\ Applies(i)
        /\ TraceOf(i) = <<>> /\ PromiseOf(i).state = "pending"
        /\ \E k \in 1 .. Len(jobs) : jobs[k].handler.h = "andThen" /\ jobs[k].handler.who = i

\* that callback has been invoked later
C24_WitnessLater ==
    \E i \in Derived :
        /\ asyncs[Parent(i)].made.op = "toAsyncResult"
        /\ TraceOf(i) # <<>> /\ Fulfilled(i)

\* toOption() has answered a wrapper that settled to an option later
C24_WitnessToOption ==
    \E i \in Chained :
        /\ asyncs[i].made.op = "toOption"
        /\ asyncs[Parent(i)].made.op = "toAsyncResult"
        /\ PromiseOf(i).state = "fulfilled"
        /\ PromiseOf(i).value = OptionVal(Some(Num(1)))

\* the handles of the client's awaits
Awaiters == {k \in Handles : asyncs[k].made.op = "await"}

\* C25: `await ar` and `await ar.promise` deliver the same: each delivers
\* the very container the wrapper's promise was fulfilled with, or raises the
\* very value it was rejected with, and has done so once the wrapper has
\* settled and the queued jobs have run; on c.toAsyncResult() it delivers c.
C25_AwaitWrapperIsAwaitPromise ==
    \A k \in Awaiters :
        LET i == asyncs[k].made.from
        IN  /\ PromiseOf(k).state # "pending" =>
                  /\ PromiseOf(k).state = PromiseOf(i).state
                  /\ PromiseOf(k).value = PromiseOf(i).value
                  /\ asyncs[i].made.op = "toAsyncResult" =>
                        /\ PromiseOf(k).state = "fulfilled"
                        /\ PromiseOf(k).value = ResultVal(asyncs[i].made.start)
            /\ (Quiet /\ PromiseOf(i).state # "pending") => PromiseOf(k).state # "pending"

\* `await ar` and `await ar.promise` on the same c.toAsyncResult() have both
\* delivered c
C25_Witness ==
    \E k, l \in Awaiters :
        /\ asyncs[k].made.via = "then" /\ asyncs[l].made.via = "promise"
        /\ asyncs[k].made.from = asyncs[l].made.from
        /\ asyncs[asyncs[k].made.from].made.op = "toAsyncResult"
        /\ Fulfilled(k) /\ Fulfilled(l)
        /\ PromiseOf(k).value = ResultVal(asyncs[asyncs[k].made.from].made.start)
        /\ PromiseOf(l).value = PromiseOf(k).value

\* both awaits on a wrapper that was rejected have raised
C25_WitnessRejected ==
    \E k, l \in Awaiters :
        /\ asyncs[k].made.via = "then" /\ asyncs[l].made.via = "promise"
        /\ asyncs[k].made.from = asyncs[l].made.from
        /\ PromiseOf(k).state = "rejected" /\ PromiseOf(l).state = "rejected"
        /\ PromiseOf(k).value = TheReason

\* `await ar` on a wrapper derived with a combinator has delivered
C25_WitnessDerived ==
    \E k \in Awaiters :
        /\ asyncs[k].made.via = "then"
        /\ asyncs[k].made.from \in Derived
        /\ Fulfilled(k)

\* the places of the options of the call in `last` that are None / Some
NoneAt == {i \in 1 .. Len(last.options) : last.options[i] = None}
SomeAt == {i \in 1 .. Len(last.options) : last.options[i].tag = "Some"}
\* the lowest place of a non-empty set of places
First(places) == CHOOSE i \in places : \A j \in places : i <= j

\* C26: Option.all answers None when an option is None, having looked at
\* the options up to the first None only, and otherwise a Some of the payloads
\* in input order (Some([]) for no options); Option.any answers the first
\* Some, having looked no further, and None when no option is Some; and the
\* variadic call answers what the call with the array answers.
C26_OptionAllAny ==
    /\ last.op = "Option.all" =>
          /\ Out.raised = NoRaise /\ HeapUntouched
          /\ NoneAt # {} => (Out.ret = RetOption(None) /\ Out.seen = UpTo(First(NoneAt)))
          /\ NoneAt = {} =>
                Out.ret = RetOption(Some(Arr([i \in 1 .. Len(last.options) |->
                                                 last.options[i].value])))
          /\ last.spread = Out
    /\ last.op = "Option.any" =>
          /\ Out.raised = NoRaise /\ HeapUntouched
          /\ SomeAt # {} => /\ Out.ret = RetOption(last.options[First(SomeAt)])
                            /\ Out.seen = UpTo(First(SomeAt))
          /\ SomeAt = {} => Out.ret = RetOption(None)
          /\ last.spread = Out

\* Option.any of a None, a Some and a different Some
C26_Witness ==
    /\ last.op = "Option.any"
    /\ Len(last.options) = 3
    /\ last.options[1] = None /\ last.options[2] = Some(Num(1)) /\ last.options[3] = Some(Num(0))
    /\ Out.ret = RetOption(Some(Num(1)))

\* Option.all of a Some, a None and a Some
C26_WitnessAllNone ==
    /\ last.op = "Option.all"
    /\ Len(last.options) = 3 /\ NoneAt = {2}
    /\ Out.ret = RetOption(None)

\* Option.all of Somes only
C26_WitnessAllSome ==
    /\ last.op = "Option.all"
    /\ Out.ret = RetOption(Some(Arr(<<Num(1), Num(0)>>)))

\* both call forms of Option.all or of Option.any without any option
C26_WitnessEmpty ==
    /\ last.op \in {"Option.all", "Option.any"}
    /\ last.options = <<>>
    /\ last.spread.ret = IF last.op = "Option.all" THEN RetOption(Some(Arr(<<>>)))
                         ELSE RetOption(None)

\* ------------------------------------------------------ the client of streams
\* the inner streams the client's mappers answer
StreamFns == {StreamFn(items, sync) :
                 items \in {<<>>, <<"Ok", "Err">>, <<"value", "value">>, <<"Some", "None">>,
                            <<"value", "Err">>},
                 sync \in BOOLEAN}

\* source.pipe(resultSwitchMap(mapper)).subscribe() / ...resultMergeMap...:
\* the source will emit containers the client has made by then
RxSubscribe(op, mapper) ==
    /\ rx.op = "none"
    /\ rx' = [op |-> op, mapper |-> mapper, made |-> Len(heap), source |-> <<>>,
              inners |-> <<>>, calls |-> <<>>, emitted |-> <<>>, out |-> <<>>]
    /\ UNCHANGED <<heap, last, proms, jobs, draining, asyncs, trace, rets>>

\* the source emits the container result
RxSourceNext(result) ==
    /\ rx.op # "none"
    /\ Len(rx.source) < MaxSource
    /\ LET s == IF rx.op = "switchMap" THEN resultSwitchMap(heap, rx, result)
                ELSE resultMergeMap(heap, rx, result)
       IN  heap' = s.heap /\ rx' = s.rx
    /\ UNCHANGED <<last, proms, jobs, draining, asyncs, trace, rets>>

\* an inner stream the pipeline is subscribed to emits its next item
RxInnerNext(k) ==
    /\ rx.op # "none"
    /\ rx.inners[k].items # <<>>
    /\ LET s == InnerNext([heap |-> heap, rx |-> rx], k)
       IN  heap' = s.heap /\ rx' = s.rx
    /\ UNCHANGED <<last, proms, jobs, draining, asyncs, trace, rets>>

NextRx ==
    \/ Idle /\ rx.op = "none" /\ NewOk(Num(0))
    \/ Idle /\ rx.op = "none" /\ NewErr(Num(0))
    \/ \E op \in {"switchMap", "mergeMap"}, mapper \in StreamFns : RxSubscribe(op, mapper)
    \/ rx.op # "none" /\ \E result \in 1 .. rx.made : RxSourceNext(result)
    \/ rx.op # "none" /\ \E k \in 1 .. Len(rx.inners) : RxInnerNext(k)

SpecRx == Init /\ [][NextRx]_vars

\* the places of the source elements so far that are Err / Ok
SourceErrs == {i \in 1 .. Len(rx.source) : heap[rx.source[i]].tag = "Err"}
SourceOks == {i \in 1 .. Len(rx.source) : heap[rx.source[i]].tag = "Ok"}
\* the calls of the mapper made for the source element at place i
CallsFor(i) == SelectSeq(rx.calls, LAMBDA c : c.from = i)
\* the places in the output of what came of the source element at place i
OutFor(i) == {k \in 1 .. Len(rx.out) : rx.emitted[k].from = i}

\* C27: in a pipeline of resultSwitchMap or resultMergeMap, the mapper is
\* never called for a source element that is an Err, and that very Err is in
\* the output, once; the mapper is called once, with the payload, for a
\* source element that is an Ok; every item an inner stream hands to the
\* pipeline goes to the output, as it is when it is an Err or an Ok, and
\* as the payload of a new Ok when it is anything else, an option included;
\* so every element of the output is an Err or an Ok.
C27_RxOperatorsYieldResults ==
    rx.op # "none" =>
        /\ \A i \in SourceErrs :
              /\ CallsFor(i) = <<>>
              /\ \E k \in 1 .. Len(rx.out) : OutFor(i) = {k} /\ rx.out[k] = ResultVal(rx.source[i])
        /\ \A i \in SourceOks :
              CallsFor(i) = <<[from |-> i, arg |-> heap[rx.source[i]].value]>>
        /\ Len(rx.out) = Len(rx.emitted)
        /\ \A k \in 1 .. Len(rx.out) :
              LET item == rx.emitted[k].item
              IN  /\ rx.out[k].t = "result"
                  /\ heap[rx.out[k].ref].tag \in {"Ok", "Err"}
                  /\ item.t = "result" => rx.out[k] = item
                  /\ item.t # "result" =>
                        /\ heap[rx.out[k].ref] = OkImpl(item)
                        /\ \A j \in 1 .. Len(rx.out) : j # k => rx.out[j] # rx.out[k]
                        /\ \A i \in 1 .. rx.emitted[k].from : rx.source[i] < rx.out[k].ref

\* resultSwitchMap of a source that emitted an Ok and then an Err, with a
\* mapper whose stream hands over an option: the option is in a new Ok in the
\* output and the Err is there as it is
C27_Witness ==
    /\ rx.op = "switchMap"
    /\ \E i \in SourceOks, j \in SourceErrs : i < j
    /\ \E k \in 1 .. Len(rx.out) :
          /\ rx.emitted[k].item.t = "option"
          /\ heap[rx.out[k].ref] = OkImpl(rx.emitted[k].item)
    /\ \E k \in 1 .. Len(rx.out), j \in SourceErrs : rx.out[k] = ResultVal(rx.source[j])

\* resultMergeMap with two inner streams whose items came out interleaved,
\* a plain value and an Err among them
C27_WitnessMerge ==
    /\ rx.op = "mergeMap"
    /\ \E k, l, m \in 1 .. Len(rx.out) :
          /\ k < l /\ l < m
          /\ rx.emitted[k].from = 1 /\ rx.emitted[l].from = 2 /\ rx.emitted[m].from = 1
          /\ rx.emitted[k].item.t = "num" /\ rx.emitted[m].item.t = "result"

\* resultSwitchMap left an inner stream before it had handed over all its
\* items
C27_WitnessSwitched ==
    /\ rx.op = "switchMap"
    /\ ~rx.mapper.sync /\ rx.mapper.items # <<>>
    /\ \E i \in SourceOks : i < Len(rx.source) /\ OutFor(i) = {}

\* C28: on every array rs, Result.all(rs) is an Ok exactly when
\* Result.partition(rs) has no errors, and its payload is then partition's
\* list of Ok payloads; Result.any(rs) is an Err exactly when partition(rs) has
\* no Ok payloads, and its payload is then partition's list of errors.
C28_AllAnyPartitionAgree ==
    last.op = "all.any.partition" =>
        /\ last.all.raised = NoRaise /\ last.any.raised = NoRaise /\ Out.raised = NoRaise
        /\ last.all.ret.k = "ref" /\ last.any.ret.k = "ref" /\ Out.ret.k = "pair"
        /\ RetObj(last.all).tag = "Ok" <=> Out.ret.errors = <<>>
        /\ RetObj(last.all).tag = "Ok" => RetObj(last.all).value = Arr(Out.ret.oks)
        /\ RetObj(last.any).tag = "Err" <=> Out.ret.oks = <<>>
        /\ RetObj(last.any).tag = "Err" => RetObj(last.any).error = Arr(Out.ret.errors)

\* the three calls on an array of two Oks of different payloads: all() is an
\* Ok of partition's two Ok payloads, any() is an Ok
C28_Witness ==
    /\ last.op = "all.any.partition"
    /\ Len(last.results) = 2
    /\ Out.ret.errors = <<>>
    /\ Len(Out.ret.oks) = 2 /\ Out.ret.oks[1] # Out.ret.oks[2]
    /\ RetObj(last.all).tag = "Ok" /\ RetObj(last.all).value = Arr(Out.ret.oks)
    /\ RetObj(last.any).tag = "Ok"

\* the three calls on an array of two Errs of different payloads: any() is an
\* Err of partition's two errors, all() is an Err
C28_WitnessAllErr ==
    /\ last.op = "all.any.partition"
    /\ Out.ret.oks = <<>>
    /\ Len(Out.ret.errors) = 2 /\ Out.ret.errors[1] # Out.ret.errors[2]
    /\ RetObj(last.any).tag = "Err" /\ RetObj(last.any).error = Arr(Out.ret.errors)
    /\ RetObj(last.all).tag = "Err"

\* the three calls on an array holding both variants: all() is an Err and
\* any() is an Ok while partition has both lists non-empty
C28_WitnessMixed ==
    /\ last.op = "all.any.partition"
    /\ Out.ret.oks # <<>> /\ Out.ret.errors # <<>>
    /\ RetObj(last.all).tag = "Err"
    /\ RetObj(last.any).tag = "Ok"

\* the three calls on the empty array: all() is Ok([]), any() is Err([])
C28_WitnessEmpty ==
    /\ last.op = "all.any.partition"
    /\ last.results = <<>>
    /\ RetObj(last.all) = OkImpl(Arr(<<>>))
    /\ RetObj(last.any) = ErrImpl(Arr(<<>>))

\* handle i is a promise that has been rejected
Rejected(i) == PromiseOf(i).state = "rejected"

\* C29: once a wrapper has rejected with a reason, a wrapper derived from it
\* by andThen, map, mapErr, or, orElse or toOption never invokes its callback
\* and never settles to a container or an option: it stays pending until the
\* queued jobs have run and is then rejected with the same reason; so is,
\* link by link, every wrapper further down the chain.
C29_RejectionIsSticky ==
    \A i \in Chained :
        Rejected(Parent(i)) =>
            /\ TraceOf(i) = <<>>
            /\ PromiseOf(i).state # "fulfilled"
            /\ Rejected(i) => PromiseOf(i).value = PromiseOf(Parent(i)).value
            /\ Quiet => Rejected(i)

\* a wrapper an outside party rejected, orElse() with a callback on it and
\* toOption() on that: all three are rejected with the outside party's reason
\* and the callback was never invoked
C29_Witness ==
    \E i, j \in Chained :
        /\ asyncs[i].made.op = "orElse" /\ asyncs[i].made.cb \in AsyncResultFns
        /\ asyncs[j].made.op = "toOption" /\ Parent(j) = i
        /\ asyncs[Parent(i)].made.op = "new"
        /\ Rejected(Parent(i)) /\ PromiseOf(Parent(i)).value = TheReason
        /\ Rejected(i) /\ PromiseOf(i).value = TheReason
        /\ Rejected(j) /\ PromiseOf(j).value = TheReason
        /\ trace = <<>>

\* a wrapper rejected with what a callback threw, and mapErr() on it,
\* rejected with the same, its own callback not invoked
C29_WitnessThrown ==
    \E i, j \in Chained :
        /\ asyncs[i].made.op = "andThen" /\ Throws(asyncs[i].made.cb.fn)
        /\ asyncs[j].made.op = "mapErr" /\ Parent(j) = i
        /\ TraceOf(i) # <<>>
        /\ Rejected(i) /\ PromiseOf(i).value = TheThrown
        /\ Rejected(j) /\ PromiseOf(j).value = TheThrown
        /\ TraceOf(j) = <<>>

\* or() and map() on a rejected wrapper, both rejected
C29_WitnessOr ==
    \E i, j \in Chained :
        /\ asyncs[i].made.op = "or" /\ asyncs[j].made.op = "map"
        /\ Parent(i) = Parent(j)
        /\ Rejected(Parent(i)) /\ Rejected(i) /\ Rejected(j)

\* the world with its settled promises and its containers, and nothing
\* waiting on any of them: no reaction registered, no job queued, no callback
\* invoked yet
Isolated ==
    [heap |-> heap, proms |-> [p \in 1 .. Len(proms) |-> [proms[p] EXCEPT !.reactions = <<>>]],
     jobs |-> <<>>, trace |-> <<>>, rets |-> <<>>]

\* the combinator call that made handle i, made again in that world
Reattach(i) ==
    LET m == asyncs[i].made
        self == asyncs[m.from].promise
    IN  CASE m.op = "andThen" -> AsyncResult_andThen(Isolated, self, m.cb, i)
          [] m.op = "map" -> AsyncResult_map(Isolated, self, m.cb, i)
          [] m.op = "mapErr" -> AsyncResult_mapErr(Isolated, self, m.cb, i)
          [] m.op = "orElse" -> AsyncResult_orElse(Isolated, self, m.cb, i)
          [] m.op = "or" -> AsyncResult_or(Isolated, self, m.cb.other, i)
          [] m.op = "toOption" -> AsyncResult_toOption(Isolated, self)

\* the queued jobs run one after the other, and the promises an outside party
\* has to settle settled, until nothing is left to do
RECURSIVE Drain(_)
Drain(w) ==
    IF w.jobs # <<>> THEN Drain(RunJob(w))
    ELSE LET ready == {p \in 1 .. Len(w.proms) :
                          w.proms[p].state = "pending" /\ w.proms[p].ext # <<>>}
             Settle(p) == SettlePromise(w, p, w.proms[p].ext[1].state, w.proms[p].ext[1].value)
         IN  IF ready = {} THEN w ELSE Drain(Settle(CHOOSE p \in ready : TRUE))

\* what handle i comes to when its combinator is the only thing attached
\* to its receiver: the world in the end and the promise of the new wrapper
Alone(i) ==
    LET Run(o) == [w |-> Drain(o.w), p |-> o.p] IN Run(Reattach(i))

\* handle i has come to what a = Alone(i) has: the same settlement, with
\* the same container when that one was there before, with an equal new one
\* when the callback made it, with the same reason or option otherwise; and
\* the callback was invoked as often, with the same argument
SameAsAlone(i, a) ==
    LET mine == PromiseOf(i)
        its == a.w.proms[a.p]
    IN  /\ mine.state = its.state
        /\ IF its.state = "fulfilled" /\ its.value.t = "result"
           THEN /\ mine.value.t = "result"
                /\ IF its.value.ref <= Len(heap) THEN mine.value = its.value
                   ELSE /\ heap[mine.value.ref] = a.w.heap[its.value.ref]
                        /\ mine.value # PromiseOf(Parent(i)).value
           ELSE mine.value = its.value
        /\ TraceOf(i) = a.w.trace

\* C30: the combinators attached to one wrapper do not interfere: each
\* callback is invoked at most once and with the payload of the one container
\* the wrapper settled to; a settled promise and a container never change
\* afterwards, whatever is attached or awaited later; and every derived
\* wrapper comes to what it would have come to had its combinator been the
\* only thing attached, whatever else was attached to or awaited on the
\* receiver, in whatever order the others ran and whether or not they
\* rejected.
C30_BranchingInterferenceFree ==
    /\ [](\A i \in Derived :
             /\ Len(TraceOf(i)) <= 1
             /\ TraceOf(i) # <<>> =>
                   /\ Fulfilled(Parent(i))
                   /\ TraceOf(i)[1].arg = ParentPayload(i))
    /\ [](\A i \in Chained :
             (Quiet \/ PromiseOf(i).state # "pending") => SameAsAlone(i, Alone(i)))
    /\ [][/\ \A p \in 1 .. Len(proms) :
               proms[p].state # "pending" =>
                   /\ proms'[p].state = proms[p].state
                   /\ proms'[p].value = proms[p].value
           /\ \A r \in 1 .. Len(heap) : Len(heap') >= r /\ heap'[r] = heap[r]]_vars

\* andThen() with a callback that throws and map() on the same wrapper,
\* attached while it was pending: both callbacks were handed the payload of
\* the Ok it settled to, the first wrapper is rejected, the second has
\* settled to the mapped Ok, and the receiver is as it settled
C30_Witness ==
    \E i, j \in Derived :
        /\ i < j /\ Parent(i) = Parent(j)
        /\ asyncs[Parent(i)].made.op = "new"
        /\ asyncs[i].made.op = "andThen" /\ Throws(asyncs[i].made.cb.fn)
        /\ asyncs[j].made.op = "map" /\ ~Throws(asyncs[j].made.cb.fn)
        /\ Len(TraceOf(i)) = 1 /\ Len(TraceOf(j)) = 1
        /\ TraceOf(i)[1].arg = TraceOf(j)[1].arg
        /\ Rejected(i)
        /\ Fulfilled(j) /\ Settled(j) = OkImpl(Num(1))
        /\ Fulfilled(Parent(i)) /\ Settled(Parent(i)) = OkImpl(Num(0))
        /\ Quiet

\* the same callback attached twice to one wrapper with andThen(), its
\* promise settled later each time: two invocations in all, one for each
\* new wrapper, and two equal containers
C30_WitnessTwice ==
    \E i, j \in Derived :
        /\ i # j /\ asyncs[i].made = asyncs[j].made
        /\ asyncs[i].made.op = "andThen" /\ asyncs[i].made.cb.shape = "pending"
        /\ Len(trace) = 2 /\ Len(TraceOf(i)) = 1 /\ Len(TraceOf(j)) = 1
        /\ Fulfilled(i) /\ Fulfilled(j)
        /\ PromiseOf(i).value # PromiseOf(j).value
        /\ Settled(i) = Settled(j)

\* a wrapper that was awaited and had orElse() attached: the await
\* delivered the Err it settled to, the new wrapper settled to what the
\* callback supplied
C30_WitnessAwaited ==
    \E k \in Awaiters, i \in Derived :
        /\ asyncs[k].made.from = Parent(i)
        /\ asyncs[i].made.op = "orElse" /\ Len(TraceOf(i)) = 1
        /\ Fulfilled(Parent(i)) /\ Settled(Parent(i)).tag = "Err"
        /\ Fulfilled(k) /\ PromiseOf(k).value = PromiseOf(Parent(i)).value
        /\ Fulfilled(i) /\ Settled(i).tag = "Ok"

====
